---- MODULE Spec2Model ----
(***************************************************************************)
(* A model of the nexus-zip container engine: the JSON-backed attribute    *)
(* store (json_backed_dict.py), the File session of the two engine drafts  *)
(* the repository keeps (hzf_readonly.py, hzf_inline.py), the FieldFile    *)
(* array codec of hzf_readonly.py and the NeXus writer built on them       *)
(* (write_nexus_zip.py).                                                   *)
(*                                                                         *)
(* Eleven specifications share the module:                                 *)
(*   SpecDict     the attribute store, _write taken one system call at a   *)
(*                time so that an interruption can fall between any two;   *)
(*   SpecFile     the life of a File session: open, use, close;            *)
(*   SpecField    one FieldFile: value assignment, append, extend, read;   *)
(*   SpecFieldRO  the same FieldFile met in a read-only session;           *)
(*   SpecFieldText  a text field of strings, for the empty-entry read;     *)
(*   SpecHzf      the File of hzf.py;                                      *)
(*   SpecZip      packaging and archive lookups;                           *)
(*   SpecNested   attribute values that are themselves mappings;           *)
(*   SpecStats    the per-point sensor statistics;                         *)
(*   SpecDataset  one Dataset storing a value per point;                   *)
(*   SpecWriter   the Writer with two scans of one file.                   *)
(***************************************************************************)
EXTENDS Integers, Sequences, FiniteSets, TLC

VARIABLES
    d_mem,      \* JSONBackedDict: the in-memory mapping (dict contents)
    d_file,     \* the backing file self.filename: [exists, text]
    d_tmp,      \* the mkstemp() temporary file: [exists, text]
    d_pc,       \* position of the process inside the current handler
    d_queue,    \* update(): the (key, value) pairs still to be set
    d_old,      \* content of the backing file when the current _write began
    d_sameFS,   \* is tempfile.gettempdir() on the backing file's filesystem
    d_err,      \* exception raised by the last handler, "" when none
    f_impl,     \* which draft's File the session uses
    f_arch,     \* the archive file: [exists, entries]
    f_wd,       \* the session's working directory: [exists, files]
    f_state,    \* "closed", "open" or "closing"
    f_mode,     \* mode of the current (or last) session
    f_zip,      \* is the read session's ZipFile handle open
    f_attrs,    \* the File object's attrs, in memory
    f_err,      \* exception raised by the last File operation, "" when none
    f_req,      \* the last operation the caller asked for
    f_fileDefault,   \* the default-argument dict attrs={} of File.__init__
    f_groupDefault,  \* the default-argument dict attrs={} of Group.__init__
    f_snap,     \* the working directory's files when close() was entered
    f_arch0,    \* the archive as it was when the session was opened
    f_plan,     \* the steps close() still has to take
    f_opens,    \* number of File(...) calls so far
    f_built,    \* group paths built in the last write session
    f_written,  \* has that session's close written the archive
    f_ret,      \* what the last get or link returned: [kind, path]
    a_exists,   \* FieldFile: has the field been created
    a_binary,   \* attrs['binary']
    a_shape,    \* attrs['shape']
    a_dtype,    \* attrs['dtype']
    a_format,   \* attrs['format']: [order, code, width]
    a_file,     \* the data file: [exists, recs]
    a_err,      \* exception raised by the last writing operation, "" when none
    a_op,       \* the last field operation and its argument
    a_prev,     \* stored shape, dtype and data file before that operation
    a_read,     \* what the last read of the value returned
    a_attrf,    \* the attribute file: "absent", "empty" ({}) or "set"
    a_byteorder,  \* attrs['byteorder'], "-" until the field is created
    a_readonly,   \* the root's readonly flag
    z_tree,     \* packaging: the directory tree handed to make_zipfile
    z_arch,     \* packaging: the archive file
    z_q,        \* the last isdir/exists lookup in the archive: [path, ...]
    n_heap,     \* nested store: the dict objects, 0 the JSONBackedDict itself
    n_file,     \* nested store: the text of the one backing file
    n_wrote,    \* nested store: which object's file the last _write wrote
    n_op,       \* nested store: the last operation and the exception raised
    s_in,       \* sensor statistics: the point's readings [value, status]
    s_prior,    \* sensor statistics: the sensor's value before the point
    s_out,      \* sensor statistics: what _sensor_stats returned
    ds_engine,  \* Dataset: the storage module bound to h5nexus
    ds_dtype,   \* Dataset: self.dtype
    ds_first,   \* Dataset: self._first, [kind, fill]
    ds_point,   \* Dataset: the number of the next point of the scan
    ds_hist,    \* Dataset: the values handed to store so far
    ds_err,     \* Dataset: exception raised by the last store, "" when none
    w_engine,   \* Writer: the module bound to the name h5nexus
    w_arch,     \* Writer: the archive at the scans' file path: [exists, data]
    w_scans,    \* Writer: self.scans, per entry [state, dir, stored]
    w_dirs,     \* Writer: the working directories: [exists, data]
    w_active,   \* Writer: self.active_scan, 0 for None
    w_err,      \* Writer: exception raised by the last call, "" when none
    w_ended     \* Writer: has end() run

dvars == <<d_mem, d_file, d_tmp, d_pc, d_queue, d_old, d_sameFS, d_err>>

fvars == <<f_impl, f_arch, f_wd, f_state, f_mode, f_zip, f_attrs, f_err, f_req,
           f_fileDefault, f_groupDefault, f_snap, f_arch0, f_plan, f_opens,
           f_built, f_written, f_ret>>

avars == <<a_exists, a_binary, a_shape, a_dtype, a_format, a_file, a_err, a_op,
           a_prev, a_read, a_attrf, a_byteorder, a_readonly>>

zvars == <<z_tree, z_arch, z_q>>

nvars == <<n_heap, n_file, n_wrote, n_op>>

svars == <<s_in, s_prior, s_out>>

dsvars == <<ds_engine, ds_dtype, ds_first, ds_point, ds_hist, ds_err>>

wvars == <<w_engine, w_arch, w_scans, w_dirs, w_active, w_err, w_ended>>

xvars == <<svars, dsvars, wvars>>

vars == <<dvars, fvars, avars, zvars, nvars, xvars>>

\* what the attribute-store actions leave alone, and the File actions
notDict == <<fvars, avars, zvars, nvars, xvars>>

notFile == <<dvars, avars, zvars, nvars, xvars>>

notField == <<dvars, fvars, zvars, nvars, xvars>>

-----------------------------------------------------------------------------
(* Bounds of the attribute-store model.                                    *)

MaxVal == 2

Keys == {"a", "b"}

Vals == 1..MaxVal

\* iteration order of a dict over these keys (fixed for one process)
KeyOrder == <<"a", "b">>

-----------------------------------------------------------------------------
(* Mappings and their JSON text.  A mapping is a function from a subset of *)
(* Keys to Vals.  JSON text is a sequence of tokens <<kind, key, value>>:  *)
(* an opening brace, one token per item, a closing brace.  A file holding  *)
(* a strict prefix of such a text is not valid JSON.                       *)

Mappings == UNION {[S -> Vals] : S \in SUBSET Keys}

EmptyMap == [k \in {} |-> 0]

MapSet(m, k, v) == [x \in (DOMAIN m) \cup {k} |-> IF x = k THEN v ELSE m[x]]

MapDel(m, k) == [x \in (DOMAIN m) \ {k} |-> m[x]]

TokOpen == <<"{", "", 0>>

TokClose == <<"}", "", 0>>

RECURSIVE DumpItems(_, _)
DumpItems(m, i) ==
    IF i > Len(KeyOrder) THEN <<>>
    ELSE IF KeyOrder[i] \in DOMAIN m
         THEN <<(<<"kv", KeyOrder[i], m[KeyOrder[i]]>>)>> \o DumpItems(m, i + 1)
         ELSE DumpItems(m, i + 1)

\* json.dumps(self)
JsonDumps(m) == <<TokOpen>> \o DumpItems(m, 1) \o <<TokClose>>

IsValidJSON(text) ==
    /\ Len(text) >= 2
    /\ text[1] = TokOpen
    /\ text[Len(text)] = TokClose
    /\ \A i \in 2..(Len(text) - 1) : text[i][1] = "kv"

RECURSIVE LoadItems(_, _)
LoadItems(text, i) ==
    IF i >= Len(text) THEN EmptyMap
    ELSE LET rest == LoadItems(text, i + 1)
         IN  IF text[i][2] \in DOMAIN rest THEN rest
             ELSE MapSet(rest, text[i][2], text[i][3])

\* json.loads(text) of a valid text
JsonLoads(text) == LoadItems(text, 2)

NoFile == [exists |-> FALSE, text |-> <<>>]

FileOf(text) == [exists |-> TRUE, text |-> text]

\* the items of a mapping in iteration order, as update() walks them
RECURSIVE ItemsFrom(_, _)
ItemsFrom(m, i) ==
    IF i > Len(KeyOrder) THEN <<>>
    ELSE IF KeyOrder[i] \in DOMAIN m
         THEN <<(<<KeyOrder[i], m[KeyOrder[i]]>>)>> \o ItemsFrom(m, i + 1)
         ELSE ItemsFrom(m, i + 1)

Items(m) == ItemsFrom(m, 1)

-----------------------------------------------------------------------------
(* JSONBackedDict                                                          *)

\* the position a handler returns to when its _write has finished: the next
\* pending item of an update(), or the caller
AfterWrite == IF d_queue = <<>> THEN "idle" ELSE "update"

\* _write, line 18: fd_out, fd_out_name = tempfile.mkstemp()
BeginWrite(mem) ==
    /\ d_mem' = mem
    /\ d_pc' = "w_mkstemp"
    /\ d_old' = d_file
    /\ d_err' = ""

\* __init__: bind to the backing file; _read() when it exists, else _write()
DictInit ==
    /\ d_pc = "unbound"
    /\ IF d_file.exists
       THEN \* _read: self.clear(), then self.update(json.loads(f.read()))
            IF IsValidJSON(d_file.text)
            THEN /\ d_mem' = EmptyMap
                 /\ d_queue' = Items(JsonLoads(d_file.text))
                 /\ d_pc' = IF Items(JsonLoads(d_file.text)) = <<>>
                            THEN "idle" ELSE "update"
                 /\ d_err' = ""
                 /\ UNCHANGED d_old
            ELSE /\ d_mem' = EmptyMap
                 /\ d_pc' = "dead"
                 /\ d_err' = "ValueError"
                 /\ UNCHANGED <<d_queue, d_old>>
       ELSE /\ BeginWrite(EmptyMap)
            /\ UNCHANGED d_queue
    /\ UNCHANGED <<d_file, d_tmp, d_sameFS>>
    /\ UNCHANGED notDict

\* update(), lines 49-52: self[key] = other[key] for the next key
UpdateStep ==
    /\ d_pc = "update"
    /\ d_queue # <<>>
    /\ BeginWrite(MapSet(d_mem, Head(d_queue)[1], Head(d_queue)[2]))
    /\ d_queue' = Tail(d_queue)
    /\ UNCHANGED <<d_file, d_tmp, d_sameFS>>
    /\ UNCHANGED notDict

\* __setitem__: dict.__setitem__ then _write
SetItem(k, v) ==
    /\ d_pc = "idle"
    /\ BeginWrite(MapSet(d_mem, k, v))
    /\ UNCHANGED <<d_file, d_tmp, d_queue, d_sameFS>>
    /\ UNCHANGED notDict

\* __delitem__: dict.__delitem__ (KeyError on a missing key) then _write
DelItem(k) ==
    /\ d_pc = "idle"
    /\ IF k \in DOMAIN d_mem
       THEN BeginWrite(MapDel(d_mem, k))
       ELSE /\ d_err' = "KeyError"
            /\ UNCHANGED <<d_mem, d_pc, d_old>>
    /\ UNCHANGED <<d_file, d_tmp, d_queue, d_sameFS>>
    /\ UNCHANGED notDict

\* update(other): one __setitem__ per key of other
Update(other) ==
    /\ d_pc = "idle"
    /\ d_queue' = Items(other)
    /\ d_pc' = IF Items(other) = <<>> THEN "idle" ELSE "update"
    /\ d_err' = ""
    /\ UNCHANGED <<d_mem, d_file, d_tmp, d_old, d_sameFS>>
    /\ UNCHANGED notDict

\* setdefault(k, v): dict.setdefault then _write
SetDefault(k, v) ==
    /\ d_pc = "idle"
    /\ BeginWrite(IF k \in DOMAIN d_mem THEN d_mem ELSE MapSet(d_mem, k, v))
    /\ UNCHANGED <<d_file, d_tmp, d_queue, d_sameFS>>
    /\ UNCHANGED notDict

\* pop(k[, default]): dict.pop (KeyError without default) then _write
Pop(k, hasDefault) ==
    /\ d_pc = "idle"
    /\ IF k \in DOMAIN d_mem \/ hasDefault
       THEN BeginWrite(MapDel(d_mem, k))
       ELSE /\ d_err' = "KeyError"
            /\ UNCHANGED <<d_mem, d_pc, d_old>>
    /\ UNCHANGED <<d_file, d_tmp, d_queue, d_sameFS>>
    /\ UNCHANGED notDict

\* clear(): not overridden, so it is dict.clear: no _write follows
Clear ==
    /\ d_pc = "idle"
    /\ d_mem' = EmptyMap
    /\ d_err' = ""
    /\ UNCHANGED <<d_file, d_tmp, d_pc, d_queue, d_old, d_sameFS>>
    /\ UNCHANGED notDict

\* _write, line 18: mkstemp() creates an empty file in the default temp dir
WriteMkstemp ==
    /\ d_pc = "w_mkstemp"
    /\ d_tmp' = FileOf(<<>>)
    /\ d_pc' = "w_dump"
    /\ UNCHANGED <<d_mem, d_file, d_queue, d_old, d_sameFS, d_err>>
    /\ UNCHANGED notDict

\* _write, lines 20-21: outfile.write(json.dumps(self)), a token at a time
WriteDump ==
    /\ d_pc = "w_dump"
    /\ IF Len(d_tmp.text) < Len(JsonDumps(d_mem))
       THEN /\ d_tmp' = FileOf(SubSeq(JsonDumps(d_mem), 1, Len(d_tmp.text) + 1))
            /\ UNCHANGED d_pc
       ELSE /\ d_pc' = "w_move"
            /\ UNCHANGED d_tmp
    /\ UNCHANGED <<d_mem, d_file, d_queue, d_old, d_sameFS, d_err>>
    /\ UNCHANGED notDict

\* _write, line 23: shutil.move(fd_out_name, fd_in_name).  os.rename when
\* both names are on one filesystem; otherwise rename fails and move copies
\* the source over the destination (opened "wb": truncated) and unlinks it
WriteMove ==
    /\ d_pc = "w_move"
    /\ IF d_sameFS
       THEN /\ d_file' = d_tmp
            /\ d_tmp' = NoFile
            /\ d_pc' = AfterWrite
       ELSE /\ d_file' = FileOf(<<>>)
            /\ d_pc' = "w_copy"
            /\ UNCHANGED d_tmp
    /\ UNCHANGED <<d_mem, d_queue, d_old, d_sameFS, d_err>>
    /\ UNCHANGED notDict

\* shutil.move's copy fallback: copyfileobj, then os.unlink(src)
WriteCopy ==
    /\ d_pc = "w_copy"
    /\ IF Len(d_file.text) < Len(d_tmp.text)
       THEN /\ d_file' = FileOf(SubSeq(d_tmp.text, 1, Len(d_file.text) + 1))
            /\ UNCHANGED <<d_tmp, d_pc>>
       ELSE /\ d_tmp' = NoFile
            /\ d_pc' = AfterWrite
            /\ UNCHANGED d_file
    /\ UNCHANGED <<d_mem, d_queue, d_old, d_sameFS, d_err>>
    /\ UNCHANGED notDict

InWrite == d_pc \in {"w_mkstemp", "w_dump", "w_move", "w_copy"}

\* the writer is interrupted (killed, power loss) inside _write
Crash ==
    /\ InWrite
    /\ d_pc' = "crashed"
    /\ UNCHANGED <<d_mem, d_file, d_tmp, d_queue, d_old, d_sameFS, d_err>>
    /\ UNCHANGED notDict

\* after an interruption a new process binds to the same backing file
Rebind ==
    /\ d_pc = "crashed"
    /\ d_pc' = "unbound"
    /\ d_mem' = EmptyMap
    /\ d_queue' = <<>>
    /\ d_tmp' = NoFile
    /\ d_err' = ""
    /\ UNCHANGED <<d_file, d_old, d_sameFS>>
    /\ UNCHANGED notDict

InitDict ==
    /\ d_mem = EmptyMap
    /\ d_file \in {NoFile} \cup {FileOf(JsonDumps(m)) : m \in Mappings}
    /\ d_tmp = NoFile
    /\ d_pc = "unbound"
    /\ d_queue = <<>>
    /\ d_old = d_file
    /\ d_sameFS \in BOOLEAN
    /\ d_err = ""

NextDict ==
    \/ DictInit
    \/ UpdateStep
    \/ \E k \in Keys, v \in Vals : SetItem(k, v)
    \/ \E k \in Keys : DelItem(k)
    \/ \E m \in Mappings : Update(m)
    \/ \E k \in Keys, v \in Vals : SetDefault(k, v)
    \/ \E k \in Keys, hd \in BOOLEAN : Pop(k, hd)
    \/ Clear
    \/ WriteMkstemp
    \/ WriteDump
    \/ WriteMove
    \/ WriteCopy
    \/ Crash
    \/ Rebind

-----------------------------------------------------------------------------
(* The File session.  Two drafts of the engine are modelled, chosen by     *)
(* f_impl: "hzf_readonly" (ReadWriteFile: a working directory for write    *)
(* sessions, the archive's name list for read sessions) and "hzf_inline"   *)
(* (File: every mode works in an extracted working directory).             *)
(*                                                                         *)
(* A path is a sequence of names; <<>> is the root "/".  A working         *)
(* directory is a function from paths to nodes [kind, attrs]: kind "dir",  *)
(* "attrs" (a JSON attribute file, its mapping in attrs), "fields" (the    *)
(* .fields file of hzf_inline.py, its records in recs: field name to       *)
(* "field", or "link" when the record holds a target), "link" (a link      *)
(* sentinel, its target path in recs) or "data".  An attribute mapping is  *)
(* a function on AttrKeys, "-" at the keys it lacks.  An archive is the    *)
(* sequence of entries make_zipfile wrote.                                 *)

MaxOpens == 2

AttrKeys == {"NX_class", "file_name", "file_time", "NeXus_version", "creator"}

NoAttrs == [k \in AttrKeys |-> "-"]

\* dict.update(other) on attribute mappings
AttrsUpdate(m, other) ==
    [k \in AttrKeys |-> IF other[k] # "-" THEN other[k] ELSE m[k]]

NoRecs == [n \in {} |-> "field"]

DirNode == [kind |-> "dir", attrs |-> NoAttrs, recs |-> NoRecs]

DataNode == [kind |-> "data", attrs |-> NoAttrs, recs |-> NoRecs]

AttrsNode(m) == [kind |-> "attrs", attrs |-> m, recs |-> NoRecs]

\* a .fields file holding the records r
FieldsNode(r) == [kind |-> "fields", attrs |-> NoAttrs, recs |-> r]

\* a link sentinel alias.link holding {"target": target}
LinkNode(target) == [kind |-> "link", attrs |-> NoAttrs, recs |-> target]

\* a symbolic link in a working directory; target: what os.readlink returns
SymlinkNode(target) == [kind |-> "symlink", attrs |-> NoAttrs, recs |-> target]

NoRet == [kind |-> "-", path |-> <<>>, target |-> <<>>]

Front(p) == SubSeq(p, 1, Len(p) - 1)

Last(p) == p[Len(p)]

\* os.listdir order of the names the model uses
NameOrder == <<".attrs", ".fields", "g", "l", "l.link", "x", "x.attrs",
               "x.dat">>

NoDir == [exists |-> FALSE, files |-> <<>>]

NoArchive == [exists |-> FALSE, entries |-> <<>>]

\* __version__
NeXusVersion == "0.0.1"

\* the format identifiers File.__init__ stamps on the root attributes
\* (hzf_readonly.py lines 155-160, hzf_inline.py lines 145-150)
RootStamp(creator) ==
    [k \in AttrKeys |->
        CASE k = "NX_class" -> "NXroot"
          [] k = "file_name" -> "f.zip"
          [] k = "file_time" -> "t"
          [] k = "NeXus_version" -> NeXusVersion
          [] k = "creator" -> creator]

\* a | b on naturals
RECURSIVE BitOr(_, _)
BitOr(a, b) ==
    IF a = 0 THEN b
    ELSE IF b = 0 THEN a
    ELSE 2 * BitOr(a \div 2, b \div 2)
         + (IF a % 2 = 1 \/ b % 2 = 1 THEN 1 ELSE 0)

\* write_item's default permissions=0755
Permissions == 493

\* 0120000, the symlink file type
SymlinkType == 40960

\* st_mode of a regular file (0100644) and of a directory (040755) made
\* under the usual umask 022
FileMode == 33188

DirMode == 16877

\* the MS-DOS directory flag ZipFile.write sets on directory entries
DosDirFlag == 16

\* x << 16 as the two 16-bit halves of the 32-bit external_attr field
Shl16(x) == [hi |-> x, lo |-> 0]

\* os.walk lists p among the dirs of its level: os.path.isdir follows links
IsWalkDir(files, p) ==
    \/ files[p].kind = "dir"
    \/ /\ files[p].kind = "symlink"
       /\ files[p].recs \in DOMAIN files
       /\ files[files[p].recs].kind = "dir"

\* write_item without its islink branch: every item goes to zipOut.write
write_item_regular(files, p) ==
    [path |-> p, slash |-> files[p].kind = "dir", kind |-> "data",
     attrs |-> files[p].attrs, recs |-> files[p].recs, system |-> 3,
     extattr |-> IF files[p].kind = "dir"
                 THEN [hi |-> DirMode, lo |-> DosDirFlag]
                 ELSE Shl16(FileMode)]

\* write_item: the archive entry written for the item at p
write_item(files, p) ==
    LET n == files[p]
    IN  IF n.kind = "symlink"                  \* os.path.islink(root)
        THEN \* ZipInfo(relpath), create_system 3, external_attr
             \* permissions << 16 | 0120000 << 16, content os.readlink(root)
             [path |-> p, slash |-> FALSE, kind |-> "symlink",
              attrs |-> n.attrs, recs |-> n.recs, system |-> 3,
              extattr |-> [hi |-> BitOr(Shl16(Permissions).hi,
                                        Shl16(SymlinkType).hi),
                           lo |-> 0]]
        ELSE \* zipOut.write(root, relpath): (st_mode & 0xFFFF) << 16, and
             \* for a directory the name gets "/" and the flag 0x10
             [path |-> p, slash |-> n.kind = "dir", kind |-> n.kind,
              attrs |-> n.attrs, recs |-> n.recs, system |-> 3,
              extattr |-> IF n.kind = "dir"
                          THEN [hi |-> DirMode, lo |-> DosDirFlag]
                          ELSE Shl16(FileMode)]

\* write_item for one directory level of os.walk: the sub-directories of
\* dir first (entry names end in "/"), then its files
RECURSIVE LevelEntries(_, _, _, _)
LevelEntries(files, dir, wantDirs, i) ==
    IF i > Len(NameOrder) THEN <<>>
    ELSE LET p == Append(dir, NameOrder[i])
         IN  IF p \in DOMAIN files /\ (IsWalkDir(files, p) = wantDirs)
             THEN <<write_item(files, p)>>
                  \o LevelEntries(files, dir, wantDirs, i + 1)
             ELSE LevelEntries(files, dir, wantDirs, i + 1)

\* a walk that stops at the first level
WalkTopOnly(files, dir) ==
    LevelEntries(files, dir, TRUE, 1) \o LevelEntries(files, dir, FALSE, 1)

\* make_zipfile: os.walk(source_dir) top-down; per directory the dirs, then
\* the files; then the walk descends into each sub-directory
RECURSIVE Walk(_, _)
RECURSIVE WalkSubdirs(_, _, _)
Walk(files, dir) ==
    LevelEntries(files, dir, TRUE, 1) \o LevelEntries(files, dir, FALSE, 1)
        \o WalkSubdirs(files, dir, 1)

WalkSubdirs(files, dir, i) ==
    IF i > Len(NameOrder) THEN <<>>
    ELSE LET p == Append(dir, NameOrder[i])
         IN  (IF p \in DOMAIN files /\ files[p].kind = "dir"
              THEN Walk(files, p) ELSE <<>>) \o WalkSubdirs(files, dir, i + 1)

make_zipfile(files) == [exists |-> TRUE, entries |-> Walk(files, <<>>)]

\* zipfile.ZipFile(filename).extractall(os_path)
ExtractAll(arch) ==
    LET idx == 1..Len(arch.entries)
    IN  [p \in {arch.entries[i].path : i \in idx} |->
            LET e == arch.entries[CHOOSE i \in idx : arch.entries[i].path = p]
            IN  \* a symlink entry is extracted as a file holding its target
                [kind |-> IF e.kind = "symlink" THEN "data" ELSE e.kind,
                 attrs |-> e.attrs, recs |-> e.recs]]

FilesPut(files, p, node) ==
    [q \in (DOMAIN files) \cup {p} |-> IF q = p THEN node ELSE files[q]]

\* JSONBackedDict(filename) in a working directory: binds to the file, or
\* writes an empty mapping when there is none
BindAttrs(files, p) ==
    IF p \in DOMAIN files THEN files ELSE FilesPut(files, p, AttrsNode(NoAttrs))

BindFields(files, p) ==
    IF p \in DOMAIN files THEN files ELSE FilesPut(files, p, FieldsNode(NoRecs))

\* ReadWriteFile.isdir, read-only branch (hzf_readonly.py lines 171-177)
RO_isdir(arch, p) ==
    \/ p = <<>>
    \/ \E i \in 1..Len(arch.entries) :
          arch.entries[i].path = p /\ arch.entries[i].slash

\* ReadWriteFile.exists, read-only branch (lines 193-196)
RO_exists(arch, p) ==
    \/ \E i \in 1..Len(arch.entries) :
          arch.entries[i].path = p /\ ~arch.entries[i].slash
    \/ RO_isdir(arch, p)

\* ReadWriteFile.listdir, read-only branch (lines 184-186)
RO_listdir(arch, p) ==
    {Last(arch.entries[i].path) :
        i \in {j \in 1..Len(arch.entries) : Front(arch.entries[j].path) = p}}

\* can ReadWriteFile.open(path, "r") find the entry (zipfile.open: KeyError)
RO_canOpen(arch, p) ==
    \E i \in 1..Len(arch.entries) :
        arch.entries[i].path = p /\ ~arch.entries[i].slash

RO_read(arch, p) ==
    arch.entries[CHOOSE i \in 1..Len(arch.entries) :
                    arch.entries[i].path = p /\ ~arch.entries[i].slash].attrs

\* close() releasing the working directory before it packages it
ClosePlanReleaseFirst(impl, mode) ==
    IF impl = "hzf_readonly"
    THEN IF mode = "r" THEN <<"zipclose">> ELSE <<"rmtree", "writezip">>
    ELSE IF mode # "r" THEN <<"rmtree", "writezip">> ELSE <<"rmtree">>

\* the steps close() takes, in order
\* hzf_readonly.py lines 220-227, hzf_inline.py lines 161-165
ClosePlan(impl, mode) ==
    IF impl = "hzf_readonly"
    THEN IF mode = "r" THEN <<"zipclose">> ELSE <<"writezip", "rmtree">>
    ELSE IF mode # "r" THEN <<"writezip", "rmtree">> ELSE <<"rmtree">>

\* the attribute file of the field whose data file is called name
AttrsNameOf(name) ==
    IF name = "x" THEN "x.attrs"
    ELSE IF name = "l" THEN "l.attrs" ELSE "y.attrs"

\* the link sentinel of the alias called name (path + ".link")
LinkNameOf(name) ==
    IF name = "l" THEN "l.link"
    ELSE IF name = "x" THEN "x.link"
    ELSE IF name = "a" THEN "a.link" ELSE "y.link"

\* the data file hzf_inline.py keeps for the field called name
DatNameOf(name) == IF name = "x" THEN "x.dat" ELSE "y.dat"

EmptyFiles == [p \in {} |-> DirNode]

\* an archive in the layout of section 6: root attributes, a group g, a
\* text field g/x with its attribute file, and an alias g/l of g/x: the
\* placeholder file and the link sentinel g/l.link
SampleTree ==
    LET paths == {<<".attrs">>, <<"g">>, <<"g", ".attrs">>, <<"g", "x">>,
                  <<"g", "x.attrs">>, <<"g", "l">>, <<"g", "l.link">>}
    IN  [p \in paths |->
            IF p = <<".attrs">> THEN AttrsNode(RootStamp("-"))
            ELSE IF p = <<"g">> THEN DirNode
            ELSE IF p \in {<<"g", "x">>, <<"g", "l">>} THEN DataNode
            ELSE IF p = <<"g", "l.link">> THEN LinkNode(<<"g", "x">>)
            ELSE AttrsNode(NoAttrs)]

\* the same content in the layout of hzf_inline.py: the fields of a group
\* are records of its .fields file, g/x with its data in g/x.dat
SampleInline ==
    LET paths == {<<".attrs">>, <<".fields">>, <<"g">>, <<"g", ".attrs">>,
                  <<"g", ".fields">>, <<"g", "x.dat">>}
    IN  [p \in paths |->
            IF p = <<".attrs">> THEN AttrsNode(RootStamp("-"))
            ELSE IF p = <<".fields">> THEN FieldsNode(NoRecs)
            ELSE IF p = <<"g">> THEN DirNode
            ELSE IF p = <<"g", ".attrs">>
            THEN AttrsNode([NoAttrs EXCEPT !["NX_class"] = "NXdata"])
            ELSE IF p = <<"g", ".fields">>
            THEN FieldsNode([n \in {"x", "l"} |->
                                IF n = "x" THEN "field" ELSE "link"])
            ELSE DataNode]

\* the group paths a working directory holds
GroupsOf(files) == {p \in DOMAIN files : files[p].kind = "dir"}

\* the group paths a read-only session can reach
RO_groups(arch) ==
    {arch.entries[i].path :
        i \in {j \in 1..Len(arch.entries) :
                  RO_isdir(arch, arch.entries[j].path)}}

Fail(e) == f_err' = e

Request(r) == f_req' = r

\* ReadWriteFile.__init__ (hzf_readonly.py lines 124-162)
RO_Open(mode, creator) ==
    IF mode = "r"
    THEN \* line 128: zipfile.ZipFile(filename); line 129: makeAttrs reads
         \* the archive's ".attrs" entry
         IF ~f_arch.exists
         THEN /\ Fail("IOError")
              /\ UNCHANGED <<f_state, f_mode, f_zip, f_attrs, f_arch0>>
         ELSE IF ~RO_canOpen(f_arch, <<".attrs">>)
         THEN /\ Fail("KeyError")
              /\ UNCHANGED <<f_state, f_mode, f_zip, f_attrs, f_arch0>>
         ELSE /\ f_state' = "open"
              /\ f_mode' = "r"
              /\ f_zip' = TRUE
              /\ f_attrs' = RO_read(f_arch, <<".attrs">>)
              /\ f_arch0' = f_arch
              /\ Fail("")
    ELSE \* line 129: makeAttrs() joins self.os_path, which is assigned only
         \* at lines 139/141: AttributeError, before any directory is made
         /\ Fail("AttributeError")
         /\ UNCHANGED <<f_state, f_mode, f_zip, f_attrs, f_arch0>>

\* File.__init__ (hzf_inline.py lines 122-152)
IL_Open(mode, creator) ==
    LET wd0 == IF f_arch.exists /\ mode \in {"a", "r"}
               THEN ExtractAll(f_arch) ELSE EmptyFiles
        wd1 == BindAttrs(wd0, <<".attrs">>)
        wd2 == BindFields(wd1, <<".fields">>)
        dflt == IF mode \in {"a", "w"}
                THEN AttrsUpdate(f_fileDefault, RootStamp(creator))
                ELSE f_fileDefault
        root == AttrsUpdate(wd2[<<".attrs">>].attrs, dflt)
    IN  /\ f_wd' = [exists |-> TRUE,
                    files |-> FilesPut(wd2, <<".attrs">>, AttrsNode(root))]
        /\ f_fileDefault' = dflt
        /\ f_attrs' = root
        /\ f_state' = "open"
        /\ f_mode' = mode
        /\ f_arch0' = f_arch
        /\ f_built' = IF mode = "r" THEN f_built ELSE GroupsOf(wd2)
        /\ f_written' = IF mode = "r" THEN f_written ELSE FALSE
        /\ Fail("")

OpenFile(mode, creator) ==
    /\ f_state = "closed"
    /\ f_opens < MaxOpens
    /\ f_opens' = f_opens + 1
    /\ Request([op |-> "open", mode |-> mode, creator |-> creator])
    /\ IF f_impl = "hzf_readonly"
       THEN /\ RO_Open(mode, creator)
            /\ UNCHANGED <<f_wd, f_fileDefault, f_built, f_written>>
       ELSE /\ IL_Open(mode, creator)
            /\ UNCHANGED f_zip
    /\ UNCHANGED <<f_impl, f_arch, f_groupDefault, f_snap, f_plan>>
    /\ f_ret' = NoRet
    /\ UNCHANGED notFile

\* node.attrs[k] = v on the File's own attrs
SetAttr(k, v) ==
    /\ f_state = "open"
    /\ Request([op |-> "set_attr", mode |-> f_mode, creator |-> "-"])
    /\ f_attrs' = [f_attrs EXCEPT ![k] = v]
    /\ IF f_impl = "hzf_readonly"
       THEN \* makeAttrs returned json.loads(...): a plain dict
            UNCHANGED f_wd
       ELSE \* JSONBackedDict.__setitem__: the whole mapping is written
            f_wd' = [f_wd EXCEPT !.files =
                        FilesPut(@, <<".attrs">>,
                                 AttrsNode([f_attrs EXCEPT ![k] = v]))]
    /\ Fail("")
    /\ UNCHANGED <<f_impl, f_arch, f_state, f_mode, f_zip, f_fileDefault,
                   f_groupDefault, f_snap, f_arch0, f_plan, f_opens, f_built,
                   f_written>>
    /\ f_ret' = NoRet
    /\ UNCHANGED notFile

\* FieldFile.__init__ in a read-only session (hzf_readonly.py lines 356-391)
CreateField(path, dtypeGiven) ==
    /\ f_state = "open"
    /\ f_impl = "hzf_readonly"
    /\ Request([op |-> "create_field", mode |-> f_mode, creator |-> "-"])
    /\ LET preexisting == RO_exists(f_arch, path)
           attrsPath == Append(Front(path), AttrsNameOf(Last(path)))
       IN  IF ~RO_canOpen(f_arch, attrsPath)
           THEN Fail("KeyError")            \* line 367, makeAttrs
           ELSE IF preexisting THEN Fail("")
           ELSE IF ~dtypeGiven THEN Fail("TypeError")   \* line 384
           ELSE Fail("AttributeError")      \* line 387: dict has no _write
    /\ UNCHANGED <<f_impl, f_arch, f_wd, f_state, f_mode, f_zip, f_attrs,
                   f_fileDefault, f_groupDefault, f_snap, f_arch0, f_plan,
                   f_opens, f_built, f_written>>
    /\ f_ret' = NoRet
    /\ UNCHANGED notFile

\* Group.__init__ in a read-only session (hzf_readonly.py lines 234-255)
RO_Group(path) ==
    /\ IF RO_canOpen(f_arch, Append(path, ".attrs"))
       THEN Fail("") ELSE Fail("KeyError")  \* line 250, makeAttrs
    /\ UNCHANGED <<f_wd, f_groupDefault, f_built>>

\* Group.__init__ -> Node.__init__ (hzf_inline.py lines 16-32, 172-173) on
\* the working directory files, dflt the default-argument dict of
\* Group.__init__; explicit: the caller passes its own empty dict as attrs.
\* The result: could the directory be made, the files and the default dict
IL_Bind(files, dflt, path, nxclass, explicit) ==
    LET preexisting == path = <<>> \/ path \in DOMAIN files
        parentOK == Front(path) = <<>> \/
                    (Front(path) \in DOMAIN files /\
                     files[Front(path)].kind = "dir")
        base == IF explicit THEN NoAttrs ELSE dflt
        passed == IF preexisting THEN base
                  ELSE [base EXCEPT !["NX_class"] = nxclass]
        wd0 == IF preexisting THEN files
               ELSE FilesPut(files, path, DirNode)
        wd1 == BindAttrs(wd0, Append(path, ".attrs"))
        wd2 == FilesPut(wd1, Append(path, ".attrs"),
                   AttrsNode(AttrsUpdate(wd1[Append(path, ".attrs")].attrs,
                                         passed)))
        wd3 == BindFields(wd2, Append(path, ".fields"))
    IN  IF ~preexisting /\ ~parentOK
        THEN [ok |-> FALSE, files |-> files, dflt |-> dflt]  \* line 27: os.mkdir
        ELSE [ok |-> TRUE, files |-> wd3,
              dflt |-> IF explicit THEN dflt ELSE passed]

IL_Group(path, nxclass, explicit) ==
    LET b == IL_Bind(f_wd.files, f_groupDefault, path, nxclass, explicit)
    IN  IF ~b.ok
        THEN /\ Fail("OSError")
             /\ UNCHANGED <<f_wd, f_groupDefault, f_built>>
        ELSE /\ f_wd' = [f_wd EXCEPT !.files = b.files]
             /\ f_groupDefault' = b.dflt
             /\ f_built' = IF f_mode = "r" THEN f_built
                           ELSE (f_built \cup {path}) \ {<<>>}
             /\ Fail("")

\* the target a link record at p holds (the sentinel's "target" entry)
StoredTarget(p) ==
    LET sp == Append(Front(p), LinkNameOf(Last(p)))
        i == CHOOSE j \in 1..Len(f_arch.entries) : f_arch.entries[j].path = sp
    IN  f_arch.entries[i].recs

\* is a link record stored for path p: the sentinel file beside it
\* (hzf_readonly.py line 93) or a "target" record in the parent's .fields
\* (hzf_inline.py line 105)
HasLinkRecord(p) ==
    IF p = <<>> THEN FALSE
    ELSE IF f_impl = "hzf_readonly"
    THEN RO_exists(f_arch, Append(Front(p), LinkNameOf(Last(p))))
    ELSE LET fp == Append(Front(p), ".fields")
         IN  /\ fp \in DOMAIN f_wd.files
             /\ Last(p) \in DOMAIN f_wd.files[fp].recs
             /\ f_wd.files[fp].recs[Last(p)] = "link"

\* is p a directory of the backend
HasGroup(p) ==
    IF f_impl = "hzf_readonly"
    THEN RO_isdir(f_arch, p)
    ELSE p = <<>> \/ (p \in DOMAIN f_wd.files /\ f_wd.files[p].kind = "dir")

\* is a field stored at p
HasField(p) ==
    IF p = <<>> THEN FALSE
    ELSE IF f_impl = "hzf_readonly"
    THEN RO_exists(f_arch, p) /\ ~RO_isdir(f_arch, p)
    ELSE LET fp == Append(Front(p), ".fields")
         IN  /\ fp \in DOMAIN f_wd.files
             /\ Last(p) \in DOMAIN f_wd.files[fp].recs
             /\ f_wd.files[fp].recs[Last(p)] = "field"

\* the node an operation hands back
Ret(kind, path) == [kind |-> kind, path |-> path, target |-> <<>>]

\* is q the path p or a path below it
Under(p, q) == Len(q) >= Len(p) /\ SubSeq(q, 1, Len(p)) = p

\* shutil.rmtree(path): the files left
Rmtree(files, p) == [q \in {r \in DOMAIN files : ~Under(p, r)} |-> files[q]]

\* os.remove(path) if the file is there
Remove(files, p) == [q \in (DOMAIN files) \ {p} |-> files[q]]

\* del fields[name], the .fields file at p rewritten
DelRecord(files, p, name) ==
    FilesPut(files, p,
             FieldsNode([n \in (DOMAIN files[p].recs) \ {name} |->
                            files[p].recs[n]]))

\* Node.__delitem__ (hzf_readonly.py lines 62-74) in a read-only session
RO_Delete(path) ==
    /\ IF RO_listdir(f_arch, Front(path)) # {}
       THEN Fail("NameError")               \* line 69: parent_os_path
       ELSE Fail("")                        \* nothing to loop over
    /\ UNCHANGED <<f_wd, f_groupDefault, f_built>>

\* Node.__delitem__ (hzf_inline.py lines 62-83)
IL_Delete(path) ==
    LET files == f_wd.files
        parent == Front(path)
        name == Last(path)
        b == IL_Bind(files, f_groupDefault, parent, "NXCollection", FALSE)
        fpath == Append(parent, ".fields")
    IN  IF path \in DOMAIN files /\ files[path].kind = "dir"
        THEN /\ f_wd' = [f_wd EXCEPT !.files = Rmtree(files, path)]
             /\ f_built' = IF f_mode = "r" THEN f_built
                           ELSE {q \in f_built : ~Under(path, q)}
             /\ Fail("")
             /\ UNCHANGED f_groupDefault
        ELSE IF parent = <<>> \/
                (parent \in DOMAIN files /\ files[parent].kind = "dir")
        THEN \* line 73: Group(self, parent_path) binds the parent first
             /\ f_groupDefault' = b.dflt
             /\ UNCHANGED f_built
             /\ IF name \in DOMAIN b.files[fpath].recs
                THEN /\ f_wd' = [f_wd EXCEPT !.files =
                                    Remove(DelRecord(b.files, fpath, name),
                                           Append(parent, DatNameOf(name)))]
                     /\ Fail("")
                ELSE /\ f_wd' = [f_wd EXCEPT !.files = b.files]
                     /\ Fail("KeyError")
        ELSE /\ Fail("KeyError")
             /\ UNCHANGED <<f_wd, f_groupDefault, f_built>>

\* del node[path]
Delete(path) ==
    /\ f_state = "open"
    /\ Request([op |-> "delete", mode |-> f_mode, creator |-> "-",
                path |-> path])
    /\ IF f_impl = "hzf_readonly" THEN RO_Delete(path) ELSE IL_Delete(path)
    /\ f_ret' = NoRet
    /\ UNCHANGED <<f_impl, f_arch, f_state, f_mode, f_zip, f_attrs,
                   f_fileDefault, f_snap, f_arch0, f_plan, f_opens, f_written>>
    /\ UNCHANGED notFile

\* Node.__getitem__ (hzf_readonly.py lines 76-101) in a read-only session;
\* ret: the node returned
RO_Get(path, ret) ==
    LET sentinel == Append(Front(path), LinkNameOf(Last(path)))
        attrsPath == Append(Front(path), AttrsNameOf(Last(path)))
    IN  /\ IF ~RO_exists(f_arch, path)
           THEN Fail("KeyError") /\ ret = NoRet        \* line 101
           ELSE IF RO_isdir(f_arch, path)
           THEN \* Group(self, full_path): makeAttrs opens path/.attrs
                IF RO_canOpen(f_arch, Append(path, ".attrs"))
                THEN Fail("") /\ ret = Ret("Group", path)
                ELSE Fail("KeyError") /\ ret = NoRet
           ELSE IF RO_exists(f_arch, sentinel)
           THEN \* FieldLink.__init__ line 517 reads self.root, which only
                \* FieldFile.__init__ (line 525) would set
                Fail("AttributeError") /\ ret = NoRet
           ELSE IF RO_canOpen(f_arch, attrsPath)
           THEN Fail("") /\ ret = Ret("Field", path)
           ELSE Fail("KeyError") /\ ret = NoRet
        /\ UNCHANGED <<f_wd, f_groupDefault, f_built>>

\* Node.__getitem__ (hzf_inline.py lines 85-113)
IL_Get(path, ret) ==
    LET files == f_wd.files
        parent == Front(path)
        isdir == path = <<>> \/
                 (path \in DOMAIN files /\ files[path].kind = "dir")
        target == IF isdir THEN path ELSE parent
        b == IL_Bind(files, f_groupDefault, target, "NXCollection", FALSE)
        recs == b.files[Append(parent, ".fields")].recs
    IN  IF isdir \/ parent = <<>> \/ parent \in DOMAIN files
        THEN \* lines 99-102: Group(self, ...) binds the group or the parent
             /\ f_wd' = [f_wd EXCEPT !.files = b.files]
             /\ f_groupDefault' = b.dflt
             /\ UNCHANGED f_built
             /\ IF isdir
                THEN Fail("") /\ ret = Ret("Group", path)
                ELSE IF Last(path) \notin DOMAIN recs
                THEN Fail("KeyError") /\ ret = NoRet
                ELSE IF recs[Last(path)] = "link"
                THEN \* FieldLink(self, path): Field.__init__ gets
                     \* target_path None and calls None.startswith
                     Fail("AttributeError") /\ ret = NoRet
                ELSE Fail("") /\ ret = Ret("Field", path)
        ELSE /\ Fail("KeyError") /\ ret = NoRet
             /\ UNCHANGED <<f_wd, f_groupDefault, f_built>>

\* node[path]
Get(path) ==
    /\ f_state = "open"
    /\ Request([op |-> "get", mode |-> f_mode, creator |-> "-",
                path |-> path])
    /\ IF f_impl = "hzf_readonly"
       THEN RO_Get(path, f_ret') ELSE IL_Get(path, f_ret')
    /\ UNCHANGED <<f_impl, f_arch, f_state, f_mode, f_zip, f_attrs,
                   f_fileDefault, f_snap, f_arch0, f_plan, f_opens, f_written>>
    /\ UNCHANGED notFile

\* link(node, link) -> FieldLink.__init__ (hzf_readonly.py lines 606-611,
\* 512-533) in a read-only session
RO_Link(target, alias) ==
    \* line 517: self.root is read before FieldFile.__init__ (line 525)
    \* assigns it, whatever the mode and whatever the sentinel holds
    /\ Fail("AttributeError")
    /\ f_ret' = NoRet
    /\ UNCHANGED <<f_wd, f_groupDefault, f_built>>

\* link(node, link) -> FieldLink.__init__ -> Field.__init__
\* (hzf_inline.py lines 418-423, 339-349, 186-218)
IL_Link(target, alias) ==
    LET b == IL_Bind(f_wd.files, f_groupDefault, Front(target),
                     "NXCollection", FALSE)
    IN  \* self.parent binds the target's group; the target's record is
        \* there, so the field is bound and nothing is stored for the alias
        /\ f_wd' = [f_wd EXCEPT !.files = b.files]
        /\ f_groupDefault' = b.dflt
        /\ f_ret' = [kind |-> "Link", path |-> alias, target |-> target]
        /\ Fail("")
        /\ UNCHANGED f_built

\* link(target_field, alias_path)
Link(target, alias) ==
    /\ f_state = "open"
    /\ HasField(target)
    /\ Request([op |-> "link", mode |-> f_mode, creator |-> "-",
                path |-> alias])
    /\ IF f_impl = "hzf_readonly"
       THEN RO_Link(target, alias) ELSE IL_Link(target, alias)
    /\ UNCHANGED <<f_impl, f_arch, f_state, f_mode, f_zip, f_attrs,
                   f_fileDefault, f_snap, f_arch0, f_plan, f_opens, f_written>>
    /\ UNCHANGED notFile

\* node[alias].attrs[k] = v where a link record is stored for alias
LinkSetAttr(alias, k) ==
    /\ f_state = "open"
    /\ HasLinkRecord(alias)
    /\ Request([op |-> "link_set_attr", mode |-> f_mode, creator |-> "-",
                path |-> alias])
    /\ \E ret \in {NoRet} :
          \* node[alias] raises before any attrs mapping is reached; no
          \* StaticDictWrapper is ever constructed
          IF f_impl = "hzf_readonly"
          THEN RO_Get(alias, ret) ELSE IL_Get(alias, ret)
    /\ f_ret' = NoRet
    /\ UNCHANGED <<f_impl, f_arch, f_state, f_mode, f_zip, f_attrs,
                   f_fileDefault, f_snap, f_arch0, f_plan, f_opens, f_written>>
    /\ UNCHANGED notFile

AddGroup(path, nxclass, explicit) ==
    /\ f_state = "open"
    /\ Request([op |-> "group", mode |-> f_mode, creator |-> "-",
                path |-> path, explicit |-> explicit])
    /\ IF f_impl = "hzf_readonly"
       THEN RO_Group(path)
       ELSE IL_Group(path, nxclass, explicit)
    /\ UNCHANGED <<f_impl, f_arch, f_state, f_mode, f_zip, f_attrs,
                   f_fileDefault, f_snap, f_arch0, f_plan, f_opens, f_written>>
    /\ f_ret' = NoRet
    /\ UNCHANGED notFile

\* close() is entered
CloseBegin ==
    /\ f_state = "open"
    /\ Request([op |-> "close", mode |-> f_mode, creator |-> "-"])
    /\ f_state' = "closing"
    /\ f_plan' = ClosePlan(f_impl, f_mode)
    /\ f_snap' = f_wd.files
    /\ Fail("")
    /\ UNCHANGED <<f_impl, f_arch, f_wd, f_mode, f_zip, f_attrs, f_fileDefault,
                   f_groupDefault, f_arch0, f_opens, f_built, f_written>>
    /\ f_ret' = NoRet
    /\ UNCHANGED notFile

Finish(rest) ==
    /\ f_plan' = rest
    /\ f_state' = IF rest = <<>> THEN "closed" ELSE "closing"

\* the next step of close(); destOK: can the archive be opened for writing
CloseStep(destOK) ==
    /\ f_state = "closing"
    /\ f_plan # <<>>
    /\ LET step == Head(f_plan)
       IN  CASE step = "zipclose" ->
                  /\ f_zip' = FALSE
                  /\ Finish(Tail(f_plan))
                  /\ UNCHANGED <<f_arch, f_wd, f_err, f_written>>
             [] step = "writezip" ->
                  IF destOK
                  THEN /\ f_arch' = make_zipfile(f_wd.files)
                       /\ f_written' = TRUE
                       /\ Finish(Tail(f_plan))
                       /\ UNCHANGED <<f_wd, f_zip, f_err>>
                  ELSE \* make_zipfile: ZipFile(...) raises inside try, the
                       \* finally clause reads the unbound name zipped
                       /\ Fail("UnboundLocalError")
                       /\ Finish(<<>>)
                       /\ UNCHANGED <<f_arch, f_wd, f_zip, f_written>>
             [] step = "rmtree" ->
                  /\ f_wd' = NoDir
                  /\ Finish(Tail(f_plan))
                  /\ UNCHANGED <<f_arch, f_zip, f_err, f_written>>
    /\ UNCHANGED <<f_impl, f_mode, f_attrs, f_fileDefault, f_groupDefault,
                   f_snap, f_arch0, f_opens, f_built, f_req>>
    /\ f_ret' = NoRet
    /\ UNCHANGED notFile

InitFile ==
    /\ f_impl \in {"hzf_readonly", "hzf_inline"}
    /\ f_arch \in {NoArchive,
                  make_zipfile(IF f_impl = "hzf_readonly" THEN SampleTree
                               ELSE SampleInline)}
    /\ f_wd = NoDir
    /\ f_state = "closed"
    /\ f_mode = "-"
    /\ f_zip = FALSE
    /\ f_attrs = NoAttrs
    /\ f_err = ""
    /\ f_req = [op |-> "-", mode |-> "-", creator |-> "-"]
    /\ f_fileDefault = NoAttrs
    /\ f_groupDefault = NoAttrs
    /\ f_snap = EmptyFiles
    /\ f_arch0 = f_arch
    /\ f_plan = <<>>
    /\ f_opens = 0
    /\ f_built = {}
    /\ f_written = FALSE
    /\ f_ret = NoRet

GetPaths ==
    {<<>>, <<"g">>, <<"g", "x">>, <<"g", "l">>, <<"g", "y">>, <<"h", "x">>}

DeletePaths == {<<"g">>, <<"x">>, <<"g", "x">>, <<"h", "x">>}

NextFile ==
    \/ \E mode \in {"r", "w", "a"}, creator \in {"-", "me"} :
          OpenFile(mode, creator)
    \/ \E k \in {"creator"}, v \in {"u", "v"} : SetAttr(k, v)
    \/ \E path \in {<<"x">>, <<"g", "x">>, <<"g", "y">>}, dt \in BOOLEAN :
          CreateField(path, dt)
    \/ \E path \in DeletePaths : Delete(path)
    \/ \E path \in GetPaths : Get(path)
    \/ \E alias \in {<<"g", "l">>, <<"g", "a">>} : Link(<<"g", "x">>, alias)
    \/ \E alias \in {<<"g", "l">>} : LinkSetAttr(alias, "target")
    \/ \E path \in {<<>>, <<"g">>}, nx \in {"NXentry"}, ex \in BOOLEAN :
          AddGroup(path, nx, ex)
    \/ CloseBegin
    \/ \E ok \in BOOLEAN : CloseStep(ok)

-----------------------------------------------------------------------------
(* One FieldFile of hzf_readonly.py: its attribute file (shape, dtype,     *)
(* format, binary, byteorder) and its data file.  SpecField binds it under *)
(* a root whose readonly flag is False, SpecFieldRO under a read-only one. *)
(*                                                                         *)
(* An array is [shape, dtype, fill]: every element has the value fill.     *)
(* Values are counted in halves (3 is 1.5), so that int32 values are the   *)
(* even ones and astype('int32') truncates to the even value below.        *)
(* A data file is a sequence of records <<n, v, k>>.  In a text file a     *)
(* record is one line of n tab-separated numerals v (k = "t"); in a        *)
(* binary file it is a run of n elements of value v written with the       *)
(* element type k.                                                         *)

MaxRank == 2

MaxDim == 2

MaxRows == 2

Dtypes == {"int32", "float32"}

\* dtype.kind
Kind(dtype) ==
    IF dtype = "int32" THEN "i" ELSE IF dtype = "float32" THEN "f" ELSE "S"

FillsOf(dtype) == IF dtype = "int32" THEN {2, 4} ELSE {3}

Shapes == UNION {[1..r -> 1..MaxDim] : r \in 0..MaxRank}

Arrays ==
    UNION {{[shape |-> s, dtype |-> dt, fill |-> v] : v \in FillsOf(dt)} :
              <<s, dt>> \in Shapes \X Dtypes}

RECURSIVE Prod(_)
Prod(s) == IF s = <<>> THEN 1 ELSE Head(s) * Prod(Tail(s))

\* s[1:]
Rest(s) == IF s = <<>> THEN <<>> ELSE Tail(s)

\* data.astype(dtype)
Astype(arr, dtype) ==
    [shape |-> arr.shape, dtype |-> dtype,
     fill |-> IF dtype = "int32" THEN arr.fill - (arr.fill % 2) ELSE arr.fill]

Repeat(x, n) == [i \in 1..n |-> x]

\* can numpy.savetxt write the array: 1-D and 2-D arrays only
SavetxtOK(arr) == Len(arr.shape) \in {1, 2}

\* numpy.savetxt(outfile, data, delimiter='\t', fmt=...): a 1-D array is
\* written as a column, one element per line; a 2-D array row by row
Savetxt(arr) ==
    IF Len(arr.shape) = 1 THEN Repeat(<<1, arr.fill, "t">>, arr.shape[1])
    ELSE Repeat(<<arr.shape[2], arr.fill, "t">>, arr.shape[1])

\* data.tofile(outfile): the elements, raw
Tofile(arr) ==
    IF Prod(arr.shape) = 0 THEN <<>>
    ELSE <<(<<Prod(arr.shape), arr.fill, Kind(arr.dtype)>>)>>

RECURSIVE Flatten(_, _)
Flatten(recs, fmt) ==
    IF recs = <<>> THEN <<>>
    ELSE Repeat(IF Head(recs)[3] \in {"t", fmt} THEN Head(recs)[2] ELSE -1,
                Head(recs)[1])
         \o Flatten(Tail(recs), fmt)

NoData == [exists |-> FALSE, recs |-> <<>>]

NoRead == [status |-> "-", shape |-> <<>>, vals |-> <<>>]

\* the shape append() stores (hzf_readonly.py lines 488-490)
AppendShape(S) == <<S[1] + 1>> \o Tail(S)

\* extend() growing the leading dimension by one row, as append() does
ExtendShapeByOne(S, c) == <<S[1] + 1>> \o Tail(S)

\* the shape extend() stores (hzf_readonly.py lines 506-508)
ExtendShape(S, c) == <<S[1] + c[1]>> \o Tail(S)

\* sys.byteorder of the host that creates the field
ByteOrders == {"little", "big"}

\* dtype.itemsize: the size of one element in bytes
Itemsize(dtype) == IF dtype \in {"int32", "float32"} THEN 4 ELSE 1

\* the format string the value setter builds (lines 454-457): '<' or '>',
\* data.dtype.char, "%d" % data.dtype.itemsize
FormatOf(byteorder, dtype) ==
    [order |-> IF byteorder = "little" THEN "<" ELSE ">",
     code |-> Kind(dtype),
     width |-> Itemsize(dtype)]

NoFormat == [order |-> "-", code |-> "-", width |-> 0]

\* a writing method that does not look at the root's readonly flag
ReadonlyUnchecked == FALSE

\* lines 447, 473, 494: if self.root.readonly
ReadonlyChecked == a_readonly

\* raise StandardError("can't ... in readonly mode"), nothing else done
RaiseReadonly ==
    /\ a_err' = "readonly"
    /\ UNCHANGED <<a_shape, a_dtype, a_format, a_file>>

Remember(name, arr, coerce) ==
    /\ a_op' = [name |-> name, shape |-> arr.shape, dtype |-> arr.dtype,
                fill |-> arr.fill, coerce |-> coerce]
    /\ a_prev' = [shape |-> a_shape, file |-> a_file, dtype |-> a_dtype,
                  format |-> a_format, binary |-> a_binary]
    /\ a_read' = NoRead

\* FieldFile._write_data (lines 463-470); the mode "w" truncates the file
\* when it is opened, before anything is written
WriteData(arr, mode) ==
    LET old == IF mode = "w" THEN <<>> ELSE a_file.recs
    IN  IF a_binary
        THEN /\ a_file' = [exists |-> TRUE, recs |-> old \o Tofile(arr)]
             /\ a_err' = ""
        ELSE IF SavetxtOK(arr)
        THEN /\ a_file' = [exists |-> TRUE, recs |-> old \o Savetxt(arr)]
             /\ a_err' = ""
        ELSE /\ a_file' = [exists |-> TRUE, recs |-> old]
             /\ a_err' = "savetxt"

\* the value setter (lines 446-461)
SetValueBody(arr) ==
    /\ a_shape' = arr.shape
    /\ a_format' = FormatOf(a_byteorder, arr.dtype)
    /\ a_dtype' = arr.dtype
    /\ WriteData(arr, "w")

\* the data file exists already (line 364: self.root.exists(self.path))
\* the creation that takes every path for new
PreexistingNever == FALSE

Preexisting == a_file.exists

\* a creation that accepts a missing dtype
CreateNeverFails(dtype) == FALSE

\* line 383: attrs['dtype'] is None
CreateFails(dtype) == dtype = "-"

\* FieldFile.__init__ (lines 356-391); withData: data is given, else it
\* defaults to numpy.array([]); dtype "-": no dtype is given
CreateBody(binary, dtype, withData, data) ==
    /\ a_prev' = [shape |-> a_shape, file |-> a_file, dtype |-> a_dtype,
                  format |-> a_format, binary |-> a_binary]
    /\ a_read' = NoRead
    /\ IF Preexisting
       THEN \* makeAttrs binds the attribute file; lines 372-373: pass
            /\ a_op' = [name |-> "bind", shape |-> <<>>, dtype |-> dtype,
                        fill |-> 0, coerce |-> TRUE]
            /\ a_attrf' = IF a_attrf = "absent" THEN "empty" ELSE a_attrf
            /\ a_err' = ""
            /\ UNCHANGED <<a_exists, a_binary, a_shape, a_dtype, a_format,
                           a_file, a_byteorder>>
       ELSE IF a_readonly
       THEN \* makeAttrs (lines 404-406): no such entry in the archive
            /\ a_op' = [name |-> "create", shape |-> <<>>, dtype |-> dtype,
                        fill |-> 0, coerce |-> TRUE]
            /\ a_err' = "KeyError"
            /\ UNCHANGED <<a_exists, a_binary, a_shape, a_dtype, a_format,
                           a_file, a_byteorder, a_attrf>>
       ELSE IF CreateFails(dtype)
       THEN \* makeAttrs has written an empty attribute file (line 367)
            /\ a_op' = [name |-> "create", shape |-> <<>>, dtype |-> dtype,
                        fill |-> 0, coerce |-> TRUE]
            /\ a_attrf' = IF a_attrf = "absent" THEN "empty" ELSE a_attrf
            /\ a_err' = "TypeError"
            /\ UNCHANGED <<a_exists, a_binary, a_shape, a_dtype, a_format,
                           a_file, a_byteorder>>
       ELSE LET arr == IF withData THEN Astype(data, dtype)
                       ELSE [shape |-> <<0>>, dtype |-> dtype, fill |-> 0]
                recs == IF binary THEN Tofile(arr)
                        ELSE IF SavetxtOK(arr) THEN Savetxt(arr) ELSE <<>>
            IN  /\ a_op' = [name |-> "create", shape |-> arr.shape,
                            dtype |-> arr.dtype, fill |-> arr.fill,
                            coerce |-> TRUE]
                /\ a_attrf' = "set"
                /\ a_exists' = TRUE
                /\ a_binary' = binary
                /\ a_shape' = arr.shape
                /\ \E bo \in ByteOrders :        \* line 382: sys.byteorder
                      /\ a_byteorder' = bo
                      /\ a_format' = FormatOf(bo, arr.dtype)
                /\ a_dtype' = arr.dtype
                /\ a_file' = [exists |-> TRUE, recs |-> recs]
                /\ a_err' = IF binary \/ SavetxtOK(arr) THEN "" ELSE "savetxt"
    /\ UNCHANGED a_readonly

\* field(node, path, ...) as an operation of its own
Create(binary, dtype, withData, data) ==
    /\ CreateBody(binary, dtype, withData, data)
    /\ UNCHANGED notField

\* field.value = data
SetValue(arr) ==
    /\ a_exists
    /\ Remember("set", arr, TRUE)
    /\ IF ReadonlyChecked THEN RaiseReadonly ELSE SetValueBody(arr)
    /\ UNCHANGED <<a_exists, a_binary, a_attrf, a_byteorder, a_readonly>>
    /\ UNCHANGED notField

\* FieldFile.append (lines 472-491)
AppendOp(arr, coerce) ==
    /\ a_exists
    /\ Len(a_shape) > 0 => a_shape[1] < MaxRows
    /\ Remember("append", arr, coerce)
    /\ IF ReadonlyChecked
       THEN /\ a_err' = "readonly"
            /\ UNCHANGED <<a_shape, a_file>>
       ELSE IF arr.shape # Rest(a_shape)
       THEN /\ a_err' = "invalid shape to append"
            /\ UNCHANGED <<a_shape, a_file>>
       ELSE IF arr.dtype # a_dtype /\ ~coerce
       THEN /\ a_err' = "dtypes do not match"
            /\ UNCHANGED <<a_shape, a_file>>
       ELSE IF a_shape = <<>>
       THEN /\ a_err' = "IndexError"        \* line 489: new_shape[0]
            /\ UNCHANGED <<a_shape, a_file>>
       ELSE /\ a_shape' = AppendShape(a_shape)
            /\ WriteData(Astype(arr, a_dtype), "a")
    /\ UNCHANGED <<a_exists, a_binary, a_dtype, a_format, a_attrf,
                   a_byteorder, a_readonly>>
    /\ UNCHANGED notField

\* FieldFile.extend (lines 493-509); the dtype check is commented out
ExtendOp(arr, coerce) ==
    /\ a_exists
    /\ (Len(a_shape) > 0 /\ Len(arr.shape) > 0)
          => a_shape[1] + arr.shape[1] <= MaxRows
    /\ Remember("extend", arr, coerce)
    /\ IF ReadonlyChecked
       THEN /\ a_err' = "readonly"
            /\ UNCHANGED <<a_shape, a_file>>
       ELSE IF Rest(arr.shape) # Rest(a_shape)
       THEN /\ a_err' = "invalid shape to append"
            /\ UNCHANGED <<a_shape, a_file>>
       ELSE IF a_shape = <<>> \/ arr.shape = <<>>
       THEN /\ a_err' = "IndexError"        \* line 507
            /\ UNCHANGED <<a_shape, a_file>>
       ELSE /\ a_shape' = ExtendShape(a_shape, arr.shape)
            /\ WriteData(arr, "a")
    /\ UNCHANGED <<a_exists, a_binary, a_dtype, a_format, a_attrf,
                   a_byteorder, a_readonly>>
    /\ UNCHANGED notField

\* Strings: a one-character string dtype ('S1', named "string8") whose
\* values are '' and 'a', written 0 and 1 in a record; the numbers stored
\* by the numeric dtypes are 2 and above.
StrArrays ==
    {[shape |-> s, dtype |-> "string8", fill |-> v] :
        <<s, v>> \in Shapes \X {0, 1}}

\* the number of characters of one field of a text line
TextLen(v) == IF v \in {0, 1} THEN v ELSE IF v % 2 = 0 THEN 1 ELSE 3

\* getsize: the fields of each line, the tabs between them, the newline
RECURSIVE Getsize(_)
Getsize(recs) ==
    IF recs = <<>> THEN 0
    ELSE Head(recs)[1] * (TextLen(Head(recs)[2]) + 1) + Getsize(Tail(recs))

\* a getter without the empty-entry branch
EmptyEntryNever(recs) == FALSE

\* line 435: self.root.getsize(target) == 1
EmptyEntry(recs) == Getsize(recs) = 1

\* numpy.loadtxt skips the lines that hold white space only
DataLines(recs) ==
    LET NotBlank(r) == r[2] # 0 IN SelectSeq(recs, NotBlank)

\* the outcome of the value getter (lines 428-444) on a data file;
\* emptyOK: what numpy.loadtxt makes of an empty file, an empty array or an
\* error, depending on its version
ReadStatus(binary, fmt, shape, recs, emptyOK) ==
    LET data == IF binary THEN recs ELSE DataLines(recs)
        ragged == \E i, j \in 1..Len(data) : data[i][1] # data[j][1]
        badint == fmt = "i" /\ \E i \in 1..Len(data) : data[i][2] % 2 = 1
    IN  IF ~binary /\ EmptyEntry(recs)
        THEN \* lines 436-438: numpy.array([''], dtype=format), reshaped
             IF fmt # "S" \/ Prod(shape) # 1 THEN "ValueError" ELSE "ok"
        ELSE IF ~binary /\ data = <<>> /\ ~emptyOK THEN "IOError"
        ELSE IF ~binary /\ (ragged \/ badint) THEN "ValueError"
        ELSE IF Len(Flatten(data, fmt)) # Prod(shape) THEN "ValueError"
        ELSE "ok"

\* the elements the getter returns when it succeeds
ReadVals(binary, fmt, recs) ==
    IF ~binary /\ EmptyEntry(recs) THEN <<0>>
    ELSE Flatten(IF binary THEN recs ELSE DataLines(recs), fmt)

\* field.value
Read(emptyOK) ==
    /\ a_exists
    /\ a_read.status = "-"
    /\ LET status == ReadStatus(a_binary, a_format.code, a_shape, a_file.recs,
                                emptyOK)
       IN  /\ a_read' = [status |-> status, shape |-> a_shape,
                         vals |-> IF status = "ok"
                                  THEN ReadVals(a_binary, a_format.code,
                                                a_file.recs)
                                  ELSE <<>>]
    /\ UNCHANGED <<a_exists, a_binary, a_shape, a_dtype, a_format, a_file,
                   a_err, a_op, a_prev, a_attrf, a_byteorder, a_readonly>>
    /\ UNCHANGED notField

NoOp == [name |-> "-", shape |-> <<>>, dtype |-> "-", fill |-> 0,
         coerce |-> TRUE]

FieldIdle ==
    /\ a_exists = FALSE
    /\ a_binary = FALSE
    /\ a_shape = <<>>
    /\ a_dtype = "-"
    /\ a_format = NoFormat
    /\ a_file = NoData
    /\ a_err = ""
    /\ a_op = NoOp
    /\ a_prev = [shape |-> <<>>, file |-> NoData, dtype |-> "-",
                 format |-> NoFormat, binary |-> FALSE]
    /\ a_read = NoRead
    /\ a_attrf = "absent"
    /\ a_byteorder = "-"
    /\ a_readonly = FALSE

\* FieldFile(node, path, ...) on a path that does not exist yet
CreateNew(binary, dtype, withData, data) ==
    ~Preexisting /\ Create(binary, dtype, withData, data)

\* FieldFile(node, path, ...) on an existing path: none of the keyword
\* arguments is looked at (lines 372-373), so one choice stands for all
CreateBind(dtype) ==
    Preexisting /\ Create(FALSE, dtype, FALSE, CHOOSE arr \in Arrays : TRUE)

NextField ==
    \/ \E b \in BOOLEAN, dt \in Dtypes \cup {"-"}, wd \in BOOLEAN,
          arr \in Arrays : CreateNew(b, dt, wd, arr)
    \/ \E dt \in Dtypes \cup {"-"} : CreateBind(dt)
    \/ \E arr \in Arrays : SetValue(arr)
    \/ \E arr \in Arrays, co \in BOOLEAN : AppendOp(arr, co)
    \/ \E arr \in Arrays, co \in BOOLEAN : ExtendOp(arr, co)
    \/ \E ok \in BOOLEAN : Read(ok)

-----------------------------------------------------------------------------
(* The specifications.  Each runs one component and holds the others in    *)
(* their initial state.                                                    *)

DictIdle ==
    /\ d_mem = EmptyMap
    /\ d_file = NoFile
    /\ d_tmp = NoFile
    /\ d_pc = "unbound"
    /\ d_queue = <<>>
    /\ d_old = NoFile
    /\ d_sameFS = TRUE
    /\ d_err = ""

ZipIdle ==
    /\ z_tree = EmptyFiles
    /\ z_arch = NoArchive
    /\ z_q = [path |-> <<>>, isdir |-> FALSE, exists |-> FALSE]

NestedIdle ==
    /\ n_heap = <<>>
    /\ n_file = <<>>
    /\ n_wrote = -1
    /\ n_op = [name |-> "-", obj |-> 0, err |-> ""]

NoStats == [average_value |-> 0, average_value_error |-> 0,
            minimum_value |-> 0, maximum_value |-> 0, median_value |-> 0,
            count |-> 0]

StatsIdle ==
    /\ s_in = <<>>
    /\ s_prior = 0
    /\ s_out = NoStats

\* Dataset._first: never assigned, None, or the one-row array held
NoFirst == [kind |-> "unset", fill |-> 0]

DatasetIdle ==
    /\ ds_engine = "-"
    /\ ds_dtype = "-"
    /\ ds_first = NoFirst
    /\ ds_point = 0
    /\ ds_hist = <<>>
    /\ ds_err = ""

NoStore == [exists |-> FALSE, data |-> {}]

WriterIdle ==
    /\ w_engine = "-"
    /\ w_arch = NoStore
    /\ w_scans = <<>>
    /\ w_dirs = <<>>
    /\ w_active = 0
    /\ w_err = ""
    /\ w_ended = FALSE

ExtraIdle == StatsIdle /\ DatasetIdle /\ WriterIdle

FileIdle ==
    /\ f_impl = "hzf_readonly"
    /\ f_arch = NoArchive
    /\ f_wd = NoDir
    /\ f_state = "closed"
    /\ f_mode = "-"
    /\ f_zip = FALSE
    /\ f_attrs = NoAttrs
    /\ f_err = ""
    /\ f_req = [op |-> "-", mode |-> "-", creator |-> "-"]
    /\ f_fileDefault = NoAttrs
    /\ f_groupDefault = NoAttrs
    /\ f_snap = EmptyFiles
    /\ f_arch0 = NoArchive
    /\ f_plan = <<>>
    /\ f_opens = 0
    /\ f_built = {}
    /\ f_written = FALSE
    /\ f_ret = NoRet

InitSpecDict == InitDict /\ FileIdle /\ FieldIdle /\ ZipIdle /\ NestedIdle /\ ExtraIdle

SpecDict == InitSpecDict /\ [][NextDict]_vars

InitSpecFile == InitFile /\ DictIdle /\ FieldIdle /\ ZipIdle /\ NestedIdle /\ ExtraIdle

SpecFile == InitSpecFile /\ [][NextFile]_vars

InitSpecField == FieldIdle /\ DictIdle /\ FileIdle /\ ZipIdle /\ NestedIdle /\ ExtraIdle

SpecField == InitSpecField /\ [][NextField]_vars

\* a field that a write session stored with the array arr, met again in an
\* archive opened with mode 'r'
InitFieldRO ==
    \E b \in BOOLEAN, arr \in Arrays, bo \in ByteOrders :
        /\ b \/ SavetxtOK(arr)
        /\ a_exists = TRUE
        /\ a_binary = b
        /\ a_shape = arr.shape
        /\ a_dtype = arr.dtype
        /\ a_format = FormatOf(bo, arr.dtype)
        /\ a_file = [exists |-> TRUE,
                     recs |-> IF b THEN Tofile(arr) ELSE Savetxt(arr)]
        /\ a_err = ""
        /\ a_op = NoOp
        /\ a_prev = [shape |-> <<>>, file |-> NoData, dtype |-> "-",
                     format |-> NoFormat, binary |-> FALSE]
        /\ a_read = NoRead
        /\ a_attrf = "set"
        /\ a_byteorder = bo
        /\ a_readonly = TRUE

InitSpecFieldRO ==
    InitFieldRO /\ DictIdle /\ FileIdle /\ ZipIdle /\ NestedIdle /\ ExtraIdle

\* what a caller does with a field of a read-only session
NextFieldRO ==
    \/ \E dt \in Dtypes \cup {"-"} : CreateBind(dt)
    \/ \E arr \in Arrays : SetValue(arr)
    \/ \E arr \in Arrays, co \in BOOLEAN : AppendOp(arr, co)
    \/ \E arr \in Arrays, co \in BOOLEAN : ExtendOp(arr, co)
    \/ \E ok \in BOOLEAN : Read(ok)

SpecFieldRO == InitSpecFieldRO /\ [][NextFieldRO]_vars

\* a text field of strings as a write session stored it with the array arr
InitFieldText ==
    \E arr \in StrArrays, bo \in ByteOrders :
        /\ SavetxtOK(arr)
        /\ a_exists = TRUE
        /\ a_binary = FALSE
        /\ a_shape = arr.shape
        /\ a_dtype = arr.dtype
        /\ a_format = FormatOf(bo, arr.dtype)
        /\ a_file = [exists |-> TRUE, recs |-> Savetxt(arr)]
        /\ a_err = ""
        /\ a_op = NoOp
        /\ a_prev = [shape |-> <<>>, file |-> NoData, dtype |-> "-",
                     format |-> NoFormat, binary |-> FALSE]
        /\ a_read = NoRead
        /\ a_attrf = "set"
        /\ a_byteorder = bo
        /\ a_readonly = FALSE

\* value assignment, extend and read on a field of strings
NextFieldText ==
    \/ \E arr \in StrArrays : SetValue(arr)
    \/ \E arr \in StrArrays, co \in BOOLEAN : ExtendOp(arr, co)
    \/ \E ok \in BOOLEAN : Read(ok)

InitSpecFieldText ==
    InitFieldText /\ DictIdle /\ FileIdle /\ ZipIdle /\ NestedIdle /\ ExtraIdle

SpecFieldText == InitSpecFieldText /\ [][NextFieldText]_vars

-----------------------------------------------------------------------------
(* C2: an interrupted _write leaves the backing file holding the complete  *)
(* previously committed mapping as valid JSON, and no reader ever sees a   *)
(* partially written attribute file: at every instant the backing file,    *)
(* when it exists, is the text it held when the write began or the         *)
(* complete text being written.                                            *)
C2_AtomicReplace ==
    (d_old.exists /\ (InWrite \/ d_pc = "crashed")) =>
        /\ d_file.exists
        /\ IsValidJSON(d_file.text)
        /\ d_file.text \in {d_old.text, JsonDumps(d_mem)}

(* C3: after every completed mutating operation the JSON content of the    *)
(* backing file equals the in-memory mapping.                              *)
C3_FileEqualsMemory ==
    d_pc = "idle" =>
        /\ d_file.exists
        /\ IsValidJSON(d_file.text)
        /\ JsonLoads(d_file.text) = d_mem

-----------------------------------------------------------------------------
\* the groups the open session shows
VisibleGroups ==
    IF f_impl = "hzf_readonly" THEN RO_groups(f_arch) ELSE GroupsOf(f_wd.files)

\* the root attribute map as persisted in the working directory
PersistedRoot == f_wd.files[<<".attrs">>].attrs

(* C1: a tree built in a write-mode session, once the File is closed and   *)
(* the archive reopened read-only, shows the same set of paths: a write    *)
(* session can be opened to build the tree, and a read session opened on   *)
(* the archive a write session's close produced shows the groups built.    *)
C1_RoundTrip ==
    /\ (f_req.op = "open" /\ f_req.mode = "w") => f_state = "open"
    /\ (f_req.op = "open" /\ f_req.mode = "r" /\ f_state = "open" /\ f_written)
          => VisibleGroups = f_built

(* C4: in a read-only session create-field, delete and set-attribute each  *)
(* raise a read-only violation error and leave the archive unchanged.      *)
C4_ReadOnlyRejects ==
    (f_state = "open" /\ f_mode = "r"
       /\ f_req.op \in {"create_field", "delete", "set_attr"})
    => (f_err = "ReadOnly" /\ f_arch = f_arch0)

(* C5: opening a File in write or append mode succeeds, with a working     *)
(* directory of its own, and while the session is open the persisted root  *)
(* attribute map carries NX_class = NXroot, file_name, file_time and       *)
(* NeXus_version.                                                          *)
C5_OpenStampsRoot ==
    /\ (f_req.op = "open" /\ f_req.mode \in {"w", "a"})
          => (f_state = "open" /\ f_wd.exists)
    /\ (f_state = "open" /\ f_mode \in {"w", "a"})
          => /\ PersistedRoot["NX_class"] = "NXroot"
             /\ PersistedRoot["file_name"] = "f.zip"
             /\ PersistedRoot["file_time"] = "t"
             /\ PersistedRoot["NeXus_version"] = NeXusVersion

(* C6: in a write or append session the working directory is never gone    *)
(* unless the archive holds exactly what the directory held when close     *)
(* was entered; once a read session is closing or closed the archive is    *)
(* what it was when the session opened.                                    *)
C6_PackBeforeRelease ==
    /\ (f_mode \in {"w", "a"} /\ f_state \in {"closing", "closed"}
          /\ ~f_wd.exists) => f_arch = make_zipfile(f_snap)
    /\ (f_mode = "r" /\ f_state \in {"closing", "closed"}) => f_arch = f_arch0

\* a write session that built group g has closed: archive written, the
\* working directory removed
C6_Witness ==
    /\ f_mode \in {"w", "a"}
    /\ f_state = "closed"
    /\ f_req.op = "close"
    /\ ~f_wd.exists
    /\ <<"g">> \in DOMAIN f_snap
    /\ f_arch = make_zipfile(f_snap)

\* the operation just performed was handed a chunk whose dtype is the
\* field's, or one it may coerce
DtypeAgrees == a_op.dtype = a_prev.dtype \/ a_op.coerce

(* C7: append(chunk) on a field with stored shape S succeeds exactly when  *)
(* the chunk's shape equals S[1:], and the stored shape then becomes       *)
(* [S[0] + 1] + S[1:]; otherwise it fails with 'invalid shape to append'   *)
(* and the stored shape and data are unchanged.                            *)
C7_AppendShapeRule ==
    (a_op.name = "append" /\ Len(a_prev.shape) >= 1 /\ DtypeAgrees) =>
        IF a_op.shape = Tail(a_prev.shape)
        THEN /\ a_err = ""
             /\ a_shape = <<a_prev.shape[1] + 1>> \o Tail(a_prev.shape)
        ELSE /\ a_err = "invalid shape to append"
             /\ a_shape = a_prev.shape
             /\ a_file = a_prev.file

\* what C8 says of the extend just performed, S the shape stored before it
\* and c the chunk's shape, both of rank at least 1
ExtendRule(S, c) ==
    IF Tail(c) = Tail(S)
    THEN /\ a_err = ""
         /\ a_shape = <<S[1] + c[1]>> \o Tail(S)
    ELSE /\ a_err = "invalid shape to append"
         /\ a_shape = S
         /\ a_file = a_prev.file

C9_AppendOnly ==
    (/\ a_op.name \in {"append", "extend"}
     /\ a_err = ""
     /\ a_op.dtype = a_prev.dtype
     /\ ReadStatus(a_binary, a_format.code, a_prev.shape, a_prev.file.recs,
                   TRUE)
            = "ok"
     /\ a_read.status # "-")
    => /\ a_read.status = "ok"
       /\ a_read.vals = Flatten(a_prev.file.recs, a_format.code)
                            \o Repeat(a_op.fill, Prod(a_op.shape))

(* C10: a chunk whose dtype differs from the field's is coerced to the     *)
(* field's dtype by default; with coercion disabled the operation fails    *)
(* with a dtype-mismatch error and shape and data are unchanged; append    *)
(* and extend alike.  Checked on binary fields and shape-compatible chunks *)
(* of rank at least 1 for extend, where nothing but the dtype can fail.    *)
C10_DtypeRule ==
    (/\ a_op.name \in {"append", "extend"}
     /\ a_binary
     /\ Len(a_prev.shape) >= 1
     /\ a_op.dtype # a_prev.dtype
     /\ a_prev.dtype = a_dtype
     /\ IF a_op.name = "append" THEN a_op.shape = Tail(a_prev.shape)
        ELSE Len(a_op.shape) >= 1 /\ Tail(a_op.shape) = Tail(a_prev.shape))
    => IF a_op.coerce
       THEN /\ a_err = ""
            /\ a_file.recs # <<>>
            /\ Last(a_file.recs)[3] = Kind(a_dtype)
       ELSE /\ a_err = "dtypes do not match"
            /\ a_shape = a_prev.shape
            /\ a_file = a_prev.file

C14_BindChangesNothing ==
    (a_prev.file.exists /\ a_op.name \in {"bind", "create"}) =>
        /\ a_err = ""
        /\ a_file = a_prev.file
        /\ a_shape = a_prev.shape
        /\ a_dtype = a_prev.dtype
        /\ a_format = a_prev.format
        /\ a_binary = a_prev.binary

C14_Witness ==
    /\ a_op.name = "bind"
    /\ a_op.dtype = "float32"
    /\ a_dtype = "int32"
    /\ a_file.recs # <<>>
    /\ a_file = a_prev.file

\* C11: get(path) returns a Group when the path is a directory, otherwise a
\* Link when a link record exists for the path, otherwise a Field when a
\* field is stored there, and raises KeyError when none of the three exists.
C11_GetDispatch ==
    [][\A p \in GetPaths :
        Get(p) =>
            IF HasGroup(p)
            THEN f_err' = "" /\ f_ret' = Ret("Group", p)
            ELSE IF HasLinkRecord(p)
            THEN f_err' = "" /\ f_ret' = Ret("Link", p)
            ELSE IF HasField(p)
            THEN f_err' = "" /\ f_ret' = Ret("Field", p)
            ELSE f_err' = "KeyError" /\ f_ret' = NoRet]_vars

\* C11 without the link case
C11_GetDispatchNoLink ==
    [][\A p \in GetPaths :
        (Get(p) /\ ~HasLinkRecord(p)) =>
            IF HasGroup(p)
            THEN f_err' = "" /\ f_ret' = Ret("Group", p)
            ELSE IF HasField(p)
            THEN f_err' = "" /\ f_ret' = Ret("Field", p)
            ELSE f_err' = "KeyError" /\ f_ret' = NoRet]_vars

\* the attributes stored for the group at p
StoredAttrs(files, p) ==
    IF Append(p, ".attrs") \in DOMAIN files
    THEN files[Append(p, ".attrs")].attrs ELSE NoAttrs

\* C12: binding a Group to a path where a group already exists, without
\* supplying attributes, leaves every stored attribute of that group
\* (NX_class included) unchanged, whatever was created earlier in the session
\* (stated for the write sessions of hzf_inline).
C12_BindKeepsAttrs ==
    [][\A p \in {<<>>, <<"g">>} :
        (/\ AddGroup(p, "NXentry", FALSE)
         /\ HasGroup(p)
         /\ f_impl = "hzf_inline"
         /\ f_mode \in {"w", "a"})
            => StoredAttrs(f_wd'.files, p) = StoredAttrs(f_wd.files, p)]_vars

\* C15: after link(target_field, alias_path) in a write session the alias
\* path has a link record, and the Link that is bound carries the alias as its
\* name and delegates to the target Field.
C15_LinkCreatesAlias ==
    [][\A a \in {<<"g", "l">>, <<"g", "a">>} :
        (Link(<<"g", "x">>, a) /\ f_mode \in {"w", "a"})
            => /\ f_err' = ""
               /\ HasLinkRecord(a)'
               /\ f_ret'.kind = "Link" /\ f_ret'.path = a]_vars

\* C16: declaring a link at an alias whose link record already holds a target
\* binds to the stored target, and the stored target is left as it was.
C16_StoredTargetWins ==
    [][\A a \in {<<"g", "l">>, <<"g", "a">>} :
        (Link(<<"g", "x">>, a) /\ f_impl = "hzf_readonly" /\ HasLinkRecord(a))
            => /\ f_err' = ""
               /\ f_ret' = [kind |-> "Link", path |-> a,
                            target |-> StoredTarget(a)]
               /\ StoredTarget(a)' = StoredTarget(a)]_vars

\* C17: setting, through a Link's attributes, a key the link sentinel already
\* holds raises the 'static key' error and changes no stored attribute.
C17_StaticKey ==
    [][LinkSetAttr(<<"g", "l">>, "target")
          => /\ f_err' = "StaticKeyError"
             /\ f_arch' = f_arch
             /\ f_wd' = f_wd]_vars

\* the field records stored for the group at p
StoredFields(files, p) ==
    IF Append(p, ".fields") \in DOMAIN files
    THEN files[Append(p, ".fields")].recs ELSE NoRecs

\* every group outside the subtree of p keeps its attributes, its field
\* records and its data files, the record and data file of p itself aside
OthersKept(before, after, p) ==
    /\ \A q \in GroupsOf(before) \cup {<<>>} :
          ~Under(p, q) =>
             /\ q = <<>> \/ q \in GroupsOf(after)
             /\ StoredAttrs(after, q) = StoredAttrs(before, q)
             /\ \A n \in DOMAIN StoredFields(before, q) :
                   Append(q, n) # p =>
                      /\ n \in DOMAIN StoredFields(after, q)
                      /\ StoredFields(after, q)[n] = StoredFields(before, q)[n]
    /\ \A q \in DOMAIN before :
          (before[q].kind = "data" /\ ~Under(p, q)
             /\ q # Append(Front(p), DatNameOf(Last(p))))
          => (q \in DOMAIN after /\ after[q] = before[q])

\* C18: in a write session, deleting an existing Group or Field succeeds, the
\* deleted path no longer exists afterwards, and every other path keeps its
\* attributes and data.
C18_DeleteRemoves ==
    [][\A p \in DeletePaths :
        (Delete(p) /\ f_mode \in {"w", "a"} /\ (HasGroup(p) \/ HasField(p)))
            => /\ f_err' = ""
               /\ ~HasGroup(p)' /\ ~HasField(p)' /\ ~HasLinkRecord(p)'
               /\ OthersKept(f_wd.files, f_wd'.files, p)]_vars

\* C18 without the frame condition on the other paths
C18_DeleteRemovesPath ==
    [][\A p \in DeletePaths :
        (Delete(p) /\ f_mode \in {"w", "a"} /\ (HasGroup(p) \/ HasField(p)))
            => /\ f_err' = ""
               /\ ~HasGroup(p)' /\ ~HasField(p)' /\ ~HasLinkRecord(p)']_vars

\* C19: deleting a path that does not exist raises KeyError and leaves the
\* container unchanged.
C19_DeleteMissing ==
    [][\A p \in DeletePaths :
        (/\ Delete(p)
         /\ ~HasGroup(p) /\ ~HasField(p) /\ ~HasLinkRecord(p))
            => /\ f_err' = "KeyError"
               /\ f_arch' = f_arch
               /\ OthersKept(f_wd.files, f_wd'.files, p)]_vars

-----------------------------------------------------------------------------
(* The File of hzf.py, the backend write_nexus_zip.py imports: every mode  *)
(* works in a temporary directory, and close() always packages it.         *)

\* the tree of an archive hzf.py wrote: root attributes and one group
SampleHzf ==
    [p \in {<<".attrs">>, <<"g">>, <<"g", ".attrs">>} |->
        IF p = <<"g">> THEN DirNode
        ELSE IF p = <<".attrs">> THEN AttrsNode(RootStamp("-"))
        ELSE AttrsNode([NoAttrs EXCEPT !["NX_class"] = "NXdata"])]

\* File.__init__ (hzf.py lines 125-160)
HZ_Open(mode, creator) ==
    LET \* line 127: tempfile.mkdtemp(); line 135: extractall for "a" and "r"
        wd0 == IF f_arch.exists /\ mode \in {"a", "r"}
               THEN ExtractAll(f_arch) ELSE EmptyFiles
        \* lines 151-156 stamp the attrs argument, the shared default dict
        dflt == IF mode \in {"a", "w"}
                THEN AttrsUpdate(f_fileDefault, RootStamp(creator))
                ELSE f_fileDefault
    IN  /\ f_state = "closed"
        /\ f_opens < MaxOpens
        /\ f_opens' = f_opens + 1
        /\ Request([op |-> "open", mode |-> mode, creator |-> creator])
        \* line 157: the attrs setter writes the whole dict as .attrs
        /\ f_wd' = [exists |-> TRUE,
                    files |-> FilesPut(wd0, <<".attrs">>, AttrsNode(dflt))]
        /\ f_fileDefault' = dflt
        /\ f_attrs' = dflt
        /\ f_state' = "open"
        /\ f_mode' = mode
        /\ f_arch0' = f_arch
        /\ f_written' = FALSE
        /\ Fail("")
        /\ f_ret' = NoRet
        /\ UNCHANGED <<f_impl, f_arch, f_zip, f_groupDefault, f_snap, f_plan,
                       f_built>>
        /\ UNCHANGED notFile

\* Group.__init__ (hzf.py lines 170-185)
HZ_AddGroup(path, nxclass, explicit) ==
    LET files == f_wd.files
        preexisting == path \in DOMAIN files
        parentOK == Front(path) = <<>> \/
                    (Front(path) \in DOMAIN files /\
                     files[Front(path)].kind = "dir")
        base == IF explicit THEN NoAttrs ELSE f_groupDefault
        passed == [base EXCEPT !["NX_class"] = nxclass]
    IN  /\ f_state = "open"
        /\ Request([op |-> "group", mode |-> f_mode, creator |-> "-",
                    path |-> path, explicit |-> explicit])
        /\ IF preexisting
           THEN /\ Fail("")
                /\ UNCHANGED <<f_wd, f_groupDefault>>
           ELSE IF ~parentOK
           THEN /\ Fail("OSError")          \* line 182: os.mkdir
                /\ UNCHANGED <<f_wd, f_groupDefault>>
           ELSE /\ f_wd' = [f_wd EXCEPT !.files =
                               FilesPut(FilesPut(files, path, DirNode),
                                        Append(path, ".attrs"),
                                        AttrsNode(passed))]
                /\ f_groupDefault' = IF explicit THEN f_groupDefault
                                     ELSE passed
                /\ Fail("")
        /\ f_ret' = NoRet
        /\ UNCHANGED <<f_impl, f_arch, f_state, f_mode, f_zip, f_attrs,
                       f_fileDefault, f_snap, f_arch0, f_plan, f_opens,
                       f_built, f_written>>
        /\ UNCHANGED notFile

\* File.close (hzf.py lines 161-163): writezip(), then rmtree, in every
\* mode; destOK: can the archive be opened for writing
HZ_Close(destOK) ==
    /\ f_state = "open"
    /\ Request([op |-> "close", mode |-> f_mode, creator |-> "-"])
    /\ IF destOK
       THEN /\ f_arch' = make_zipfile(f_wd.files)
            /\ f_written' = TRUE
            /\ f_wd' = NoDir
            /\ f_state' = "closed"
            /\ Fail("")
       ELSE \* zipfile.ZipFile(output_filename, "w") raises; rmtree is not
            \* reached and the temporary directory stays
            /\ Fail("IOError")
            /\ f_state' = "closed"
            /\ UNCHANGED <<f_arch, f_written, f_wd>>
    /\ f_ret' = NoRet
    /\ UNCHANGED <<f_impl, f_mode, f_zip, f_attrs, f_fileDefault,
                   f_groupDefault, f_snap, f_arch0, f_plan, f_opens, f_built>>
    /\ UNCHANGED notFile

InitHzf ==
    /\ f_impl = "hzf"
    /\ f_arch \in {NoArchive, make_zipfile(SampleHzf)}
    /\ f_wd = NoDir
    /\ f_state = "closed"
    /\ f_mode = "-"
    /\ f_zip = FALSE
    /\ f_attrs = NoAttrs
    /\ f_err = ""
    /\ f_req = [op |-> "-", mode |-> "-", creator |-> "-"]
    /\ f_fileDefault = NoAttrs
    /\ f_groupDefault = NoAttrs
    /\ f_snap = EmptyFiles
    /\ f_arch0 = f_arch
    /\ f_plan = <<>>
    /\ f_opens = 0
    /\ f_built = {}
    /\ f_written = FALSE
    /\ f_ret = NoRet

NextHzf ==
    \/ \E mode \in {"r", "w", "a"}, creator \in {"-", "me"} :
          HZ_Open(mode, creator)
    \/ \E path \in {<<"g">>, <<"h">>, <<"h", "k">>},
          nx \in {"NXentry", "NXdata"}, ex \in BOOLEAN :
          HZ_AddGroup(path, nx, ex)
    \/ \E ok \in BOOLEAN : HZ_Close(ok)

InitSpecHzf == InitHzf /\ DictIdle /\ FieldIdle /\ ZipIdle /\ NestedIdle /\ ExtraIdle

SpecHzf == InitSpecHzf /\ [][NextHzf]_vars

\* C20: opening a File in read mode creates no working directory and
\* extracts nothing, and no step of a read session, close included, writes
\* the archive file.
C20_ReadNeverMutates ==
    [][/\ (f_state' = "open" /\ f_mode' = "r") => ~f_wd'.exists
       /\ (f_state = "open" /\ f_mode = "r") => f_arch' = f_arch]_vars

\* C20, the archive half alone
C20_ReadKeepsArchive ==
    [][(f_state \in {"open", "closing"} /\ f_mode = "r")
          => f_arch' = f_arch]_vars

\* C21: opening an existing archive in append mode succeeds and every entry
\* of the archive, root attribute file aside, is extracted into the working
\* directory as it was stored.
C21_AppendExtracts ==
    (f_req.op = "open" /\ f_req.mode = "a" /\ f_arch.exists)
    => /\ f_state = "open"
       /\ f_wd.exists
       /\ \A i \in 1..Len(f_arch.entries) :
             LET e == f_arch.entries[i]
             IN  /\ e.path \in DOMAIN f_wd.files
                 /\ e.path # <<".attrs">> =>
                       /\ f_wd.files[e.path].kind = e.kind
                       /\ f_wd.files[e.path].attrs = e.attrs
                       /\ f_wd.files[e.path].recs = e.recs

\* C22: the root attributes persisted for a File depend only on the
\* arguments of its own open: a File opened in write mode without a creator
\* stores no creator, whatever Files were opened earlier in the process.
C22_NoSharedState ==
    (f_req.op = "open" /\ f_req.mode = "w" /\ f_state = "open")
    => PersistedRoot = RootStamp(f_req.creator)

-----------------------------------------------------------------------------
(* Packaging a directory tree (make_zipfile, write_item) and the lookups   *)
(* of a read-only session in an archive (isdir, exists).                   *)

ZipPaths ==
    {<<"g">>, <<"x">>, <<"l">>, <<"g", "g">>, <<"g", "x">>, <<"g", "l">>}

\* what a path of that name can be: a directory, a regular file, or a
\* symbolic link to a directory or to a file
ZipNodes(p) ==
    IF Last(p) = "g" THEN {DirNode}
    ELSE IF Last(p) = "x" THEN {DataNode}
    ELSE {SymlinkNode(<<"g">>), SymlinkNode(<<"g", "x">>)}

\* the directory trees: every path lies in a directory of the tree
ZipTrees ==
    {t \in UNION {[S -> UNION {ZipNodes(p) : p \in ZipPaths}] :
                     S \in SUBSET ZipPaths} :
        \A p \in DOMAIN t :
            /\ t[p] \in ZipNodes(p)
            /\ Len(p) > 1 => (Front(p) \in DOMAIN t /\ t[Front(p)] = DirNode)}

\* an archive written by a tool that stores no entries for directories
WithoutDirEntries(arch) ==
    [exists |-> TRUE,
     entries |-> SelectSeq(arch.entries, LAMBDA e : ~e.slash)]

\* make_zipfile(output_filename, source_dir)
Pack ==
    /\ z_arch' = make_zipfile(z_tree)
    /\ UNCHANGED <<z_tree, z_q>>
    /\ UNCHANGED <<dvars, fvars, avars, nvars, xvars>>

\* root.isdir(path) and root.exists(path) in a read-only session
Lookup(p) ==
    /\ z_arch.exists
    /\ z_q' = [path |-> p, isdir |-> RO_isdir(z_arch, p),
               exists |-> RO_exists(z_arch, p)]
    /\ UNCHANGED <<z_tree, z_arch>>
    /\ UNCHANGED <<dvars, fvars, avars, nvars, xvars>>

InitZip ==
    /\ z_tree \in ZipTrees
    /\ z_arch \in {NoArchive, make_zipfile(SampleTree),
                   WithoutDirEntries(make_zipfile(SampleTree))}
    /\ z_q = [path |-> <<>>, isdir |-> FALSE, exists |-> FALSE]

LookupPaths == {<<>>, <<"g">>, <<"x">>, <<"g", "x">>, <<"g", "l">>}

NextZip ==
    \/ Pack
    \/ \E p \in LookupPaths : Lookup(p)

InitSpecZip ==
    InitZip /\ DictIdle /\ FileIdle /\ FieldIdle /\ NestedIdle /\ ExtraIdle

SpecZip == InitSpecZip /\ [][NextZip]_vars

\* the entry names of an archive: relative path and trailing "/"
EntryNames(arch) ==
    {<<arch.entries[i].path, arch.entries[i].slash>> :
        i \in 1..Len(arch.entries)}

\* C23: after packaging, the archive's entry names are exactly the relative
\* paths of every directory (empty ones included) and every file of the
\* tree, each once, and a directory is written before everything under it.
C23_PackedNames ==
    z_arch = make_zipfile(z_tree) =>
        /\ EntryNames(z_arch) =
              {<<p, z_tree[p].kind = "dir">> : p \in DOMAIN z_tree}
        /\ Len(z_arch.entries) = Cardinality(DOMAIN z_tree)
        /\ \A i, j \in 1..Len(z_arch.entries) :
              (/\ z_arch.entries[i].slash
               /\ i # j
               /\ Under(z_arch.entries[i].path, z_arch.entries[j].path))
              => i < j

C23_Witness ==
    /\ z_arch = make_zipfile(z_tree)
    /\ <<"g", "g">> \in DOMAIN z_tree
    /\ <<"g", "x">> \in DOMAIN z_tree
    /\ <<"x">> \in DOMAIN z_tree
    /\ Len(z_arch.entries) = 4

\* the high half of 2716663808 = 41453 * 2^16, the external_attr the source
\* quotes for a link with 0755 permissions
SymlinkAttrHi == 41453

\* the Unix file type held in the high half of external_attr (st_mode >> 12)
FileTypeOf(extattr) == extattr.hi \div 4096

\* C24: every symbolic link of the tree is written as an entry whose content
\* is the link's target string and whose external attributes are
\* (0120000 | 0755) << 16 = 2716663808 with create_system 3; every other
\* item is written as a regular entry.
C24_SymlinkEntries ==
    z_arch = make_zipfile(z_tree) =>
        \A i \in 1..Len(z_arch.entries) :
            LET e == z_arch.entries[i]
                n == z_tree[e.path]
            IN  IF n.kind = "symlink"
                THEN /\ e.kind = "symlink"
                     /\ e.recs = n.recs
                     /\ ~e.slash
                     /\ e.system = 3
                     /\ e.extattr = [hi |-> SymlinkAttrHi, lo |-> 0]
                     /\ FileTypeOf(e.extattr) = SymlinkType \div 4096
                ELSE /\ e.kind = n.kind
                     /\ FileTypeOf(e.extattr) # SymlinkType \div 4096

C24_Witness ==
    /\ z_arch = make_zipfile(z_tree)
    /\ <<"l">> \in DOMAIN z_tree
    /\ <<"g", "l">> \in DOMAIN z_tree
    /\ z_tree[<<"l">>] = SymlinkNode(<<"g">>)
    /\ \E i \in 1..Len(z_arch.entries) :
          /\ z_arch.entries[i].path = <<"l">>
          /\ z_arch.entries[i].kind = "symlink"
          /\ z_arch.entries[i].recs = <<"g">>

\* a directory in the sense of the archive format: the root, or a path with
\* an entry name that starts with path + "/"
InferredDir(arch, p) ==
    \/ p = <<>>
    \/ \E i \in 1..Len(arch.entries) :
          LET e == arch.entries[i]
          IN  \/ e.path = p /\ e.slash
              \/ Len(e.path) > Len(p) /\ Under(p, e.path)

C29_ExplicitDirs ==
    [][\A p \in LookupPaths :
        (Lookup(p) /\ \A q \in LookupPaths :
                         InferredDir(z_arch, q) => RO_isdir(z_arch, q))
        => /\ z_q'.isdir = InferredDir(z_arch, p)
           /\ z_q'.exists =
                 (\/ InferredDir(z_arch, p)
                  \/ \E i \in 1..Len(z_arch.entries) :
                        z_arch.entries[i].path = p)]_vars

-----------------------------------------------------------------------------
(* Attribute values that are themselves mappings: JSONBackedDict hands out *)
(* JSONBackedSubDict views (json_backed_dict.py lines 31-37, 67-74).  The  *)
(* dict objects are kept in a heap, object 0 being the JSONBackedDict that *)
(* owns the backing file; a value is a number, a plain dict as json.loads  *)
(* or the caller supplies it, or a reference to a view object.             *)

MaxObjs == 2

Num(v) == [t |-> "num", n |-> v, m |-> EmptyMap]

Lit(m) == [t |-> "lit", n |-> 0, m |-> m]

Ref(i) == [t |-> "ref", n |-> i, m |-> EmptyMap]

\* {"a": 1} and {"a": {"a": 1}}
LitFlat == [k \in {"a"} |-> Num(1)]

LitDeep == [k \in {"a"} |-> Lit(LitFlat)]

\* the values a caller assigns: a number and a plain dict
NVals == {Num(2), Lit(LitFlat)}

\* the mapping an object tree stands for, views replaced by their contents
RECURSIVE PlainMap(_, _)
PlainMap(heap, m) ==
    [k \in DOMAIN m |->
        IF m[k].t = "ref" THEN Lit(PlainMap(heap, heap[m[k].n].m))
        ELSE IF m[k].t = "lit" THEN Lit(PlainMap(heap, m[k].m))
        ELSE m[k]]

\* json.dumps(self): a JSONBackedSubDict is a dict and is dumped in place
RECURSIVE NDump(_, _)
RECURSIVE NDumpItems(_, _, _)
NDump(heap, m) == <<TokOpen>> \o NDumpItems(heap, m, 1) \o <<TokClose>>

NDumpItems(heap, m, i) ==
    IF i > Len(KeyOrder) THEN <<>>
    ELSE LET k == KeyOrder[i]
         IN  (IF k \notin DOMAIN m THEN <<>>
              ELSE IF m[k].t = "num" THEN <<(<<"kv", k, m[k].n>>)>>
              ELSE IF m[k].t = "ref"
              THEN <<(<<"key", k, 0>>)>> \o NDump(heap, heap[m[k].n].m)
              ELSE <<(<<"key", k, 0>>)>> \o NDump(heap, m[k].m))
             \o NDumpItems(heap, m, i + 1)

\* a view that writes a file of its own instead of delegating
TopSelf(heap, o) == o

\* JSONBackedSubDict._write (lines 73-74): self.root_dict._write(), up to
\* the JSONBackedDict; the object whose file is written
RECURSIVE Top(_, _)
Top(heap, o) == IF o = 0 THEN 0 ELSE Top(heap, heap[o].parent)

\* _write called on object o once the heap is heap
NWrite(heap, o) ==
    /\ n_heap' = heap
    /\ n_wrote' = Top(heap, o)
    /\ n_file' = IF Top(heap, o) = 0 THEN NDump(heap, heap[0].m) ELSE n_file

NoWrite ==
    /\ n_wrote' = -1
    /\ UNCHANGED <<n_heap, n_file>>

\* __setitem__ (lines 39-41) on the dict or on a view
NSet(o, k, v) ==
    /\ o \in DOMAIN n_heap
    /\ NWrite([n_heap EXCEPT ![o].m = MapSet(@, k, v)], o)
    /\ n_op' = [name |-> "set", obj |-> o, err |-> ""]
    /\ UNCHANGED <<dvars, fvars, avars, zvars, xvars>>

\* __delitem__ (lines 58-60) on the dict or on a view
NDel(o, k) ==
    /\ o \in DOMAIN n_heap
    /\ IF k \in DOMAIN n_heap[o].m
       THEN /\ NWrite([n_heap EXCEPT ![o].m = MapDel(@, k)], o)
            /\ n_op' = [name |-> "del", obj |-> o, err |-> ""]
       ELSE /\ NoWrite
            /\ n_op' = [name |-> "del", obj |-> o, err |-> "KeyError"]
    /\ UNCHANGED <<dvars, fvars, avars, zvars, xvars>>

\* __getitem__ (lines 31-37): a plain dict is wrapped in a view on
\* retrieval, and the view is stored back under the key
NGet(o, k) ==
    /\ o \in DOMAIN n_heap
    /\ IF k \notin DOMAIN n_heap[o].m
       THEN /\ NoWrite
            /\ n_op' = [name |-> "get", obj |-> o, err |-> "KeyError"]
       ELSE IF n_heap[o].m[k].t = "lit"
       THEN LET id == Cardinality(DOMAIN n_heap)
                view == [parent |-> o, m |-> n_heap[o].m[k].m]
                heap == [i \in (DOMAIN n_heap) \cup {id} |->
                            IF i = id THEN view
                            ELSE IF i = o
                            THEN [n_heap[o] EXCEPT !.m = MapSet(@, k, Ref(id))]
                            ELSE n_heap[i]]
            IN  /\ id <= MaxObjs
                /\ NWrite(heap, o)
                /\ n_op' = [name |-> "get", obj |-> o, err |-> ""]
       ELSE /\ NoWrite
            /\ n_op' = [name |-> "get", obj |-> o, err |-> ""]
    /\ UNCHANGED <<dvars, fvars, avars, zvars, xvars>>

\* the mappings a backing file holds when the store is bound to it
NestedStart ==
    {EmptyMap,
     [k \in {"a"} |-> Lit(LitFlat)],
     [k \in {"a"} |-> Lit(LitDeep)],
     [k \in {"a", "b"} |-> IF k = "a" THEN Num(1) ELSE Lit(LitFlat)]}

InitNested ==
    /\ \E m \in NestedStart :
          /\ n_heap = [i \in {0} |-> [parent |-> 0, m |-> m]]
          /\ n_file = NDump(<<>>, m)
    /\ n_wrote = -1
    /\ n_op = [name |-> "-", obj |-> 0, err |-> ""]

NextNested ==
    \/ \E o \in 0..MaxObjs, k \in Keys, v \in NVals : NSet(o, k, v)
    \/ \E o \in 0..MaxObjs, k \in Keys : NDel(o, k)
    \/ \E o \in 0..MaxObjs, k \in Keys : NGet(o, k)

InitSpecNested ==
    InitNested /\ DictIdle /\ FileIdle /\ FieldIdle /\ ZipIdle /\ ExtraIdle

SpecNested == InitSpecNested /\ [][NextNested]_vars

\* is the view o still the value stored under a key of its owner, up to
\* the JSONBackedDict
RECURSIVE Attached(_, _)
Attached(heap, o) ==
    \/ o = 0
    \/ /\ \E k \in DOMAIN heap[heap[o].parent].m :
             heap[heap[o].parent].m[k] = Ref(o)
       /\ Attached(heap, heap[o].parent)

\* the keys that lead from the JSONBackedDict to the view o
RECURSIVE PathOf(_, _)
PathOf(heap, o) ==
    IF o = 0 THEN <<>>
    ELSE Append(PathOf(heap, heap[o].parent),
                CHOOSE k \in DOMAIN heap[heap[o].parent].m :
                    heap[heap[o].parent].m[k] = Ref(o))

\* m with m[path...][k] set to v, and with that key deleted
RECURSIVE SetAt(_, _, _, _)
SetAt(m, path, k, v) ==
    IF path = <<>> THEN MapSet(m, k, v)
    ELSE MapSet(m, Head(path), Lit(SetAt(m[Head(path)].m, Tail(path), k, v)))

RECURSIVE DelAt(_, _, _)
DelAt(m, path, k) ==
    IF path = <<>> THEN MapDel(m, k)
    ELSE MapSet(m, Head(path), Lit(DelAt(m[Head(path)].m, Tail(path), k)))

\* the mapping the backing file should hold before the step
Stored == PlainMap(n_heap, n_heap[0].m)

\* C26: a set or delete made on the nested view obtained by reading a key,
\* at any depth, is persisted in the owning node's one backing file: after
\* it the file is the JSON of the mapping with the nested value updated, and
\* the file written is the owner's.
C26_NestedWritesPersist ==
    [][\A o \in 1..MaxObjs, k \in Keys :
        /\ \A v \in NVals :
              (NSet(o, k, v) /\ Attached(n_heap, o))
              => /\ n_file' = NDump(<<>>, SetAt(Stored, PathOf(n_heap, o), k, v))
                 /\ n_wrote' = 0
        /\ (NDel(o, k) /\ Attached(n_heap, o) /\ k \in DOMAIN n_heap[o].m)
              => /\ n_file' = NDump(<<>>, DelAt(Stored, PathOf(n_heap, o), k))
                 /\ n_wrote' = 0]_vars

C26_Witness ==
    /\ n_op.name = "set"
    /\ n_op.obj = 2
    /\ 2 \in DOMAIN n_heap
    /\ n_heap[2].parent = 1
    /\ Attached(n_heap, 2)
    /\ n_wrote = 0
    /\ n_file = NDump(<<>>, [k \in {"a"} |->
                   Lit([j \in {"a"} |->
                       Lit([i \in {"a", "b"} |->
                           IF i = "a" THEN Num(1) ELSE Num(2)])])])

-----------------------------------------------------------------------------
C27_OrderFixed ==
    [][\A arr \in Arrays, co \in BOOLEAN :
          (SetValue(arr) \/ AppendOp(arr, co) \/ ExtendOp(arr, co))
          => a_byteorder' = a_byteorder]_vars

C28_OrderAndCode ==
    (a_exists /\ a_op.name \in {"create", "set"})
    => /\ a_format.order = "<" <=> a_byteorder = "little"
       /\ a_format.order \in {"<", ">"}
       /\ a_format.code = Kind(a_dtype)

(* C30: in a read-only session a value assignment, an append and an extend *)
(* each raise the read-only error and change neither an attribute (shape   *)
(* included) nor the data.                                                 *)
C30_ReadonlyRefuses ==
    [][\A arr \in Arrays, co \in BOOLEAN :
          (a_readonly /\ (SetValue(arr) \/ AppendOp(arr, co)
                             \/ ExtendOp(arr, co)))
          => /\ a_err' = "readonly"
             /\ UNCHANGED <<a_exists, a_binary, a_shape, a_dtype, a_format,
                            a_file, a_attrf, a_byteorder>>]_vars

\* an append that a writable session would perform, refused
C30_Witness ==
    /\ a_readonly
    /\ a_op.name = "append"
    /\ a_err = "readonly"
    /\ a_shape = <<1, 2>>
    /\ a_op.shape = <<2>>
    /\ a_op.dtype = a_dtype
    /\ a_file = a_prev.file
    /\ a_shape = a_prev.shape

-----------------------------------------------------------------------------
(* C31: reading a text field whose data file is a single newline returns   *)
(* exactly one empty-string record in the stored shape instead of failing; *)
(* any other content is decoded as delimited text: what a successful read  *)
(* returns are the fields of the file's non-blank lines.                   *)
C31_EmptyEntry ==
    (a_exists /\ ~a_binary /\ a_read.status # "-")
    => IF a_file.recs = <<(<<1, 0, "t">>)>>
       THEN /\ a_read.status = "ok"
            /\ a_read.vals = <<0>>
            /\ a_read.shape = a_shape
            /\ Prod(a_shape) = 1
       ELSE /\ a_read.status = "ok"
               => a_read.vals = Flatten(DataLines(a_file.recs), a_format.code)
            /\ (a_file.recs # <<>> /\ DataLines(a_file.recs) = a_file.recs
                /\ Len(Flatten(a_file.recs, "S")) = Prod(a_shape)
                /\ \A i, j \in 1..Len(a_file.recs) :
                      a_file.recs[i][1] = a_file.recs[j][1])
               => a_read.status = "ok"

\* the field [''] of shape [1, 1], read back
C31_Witness ==
    /\ ~a_binary
    /\ a_file.recs = <<(<<1, 0, "t">>)>>
    /\ a_format.code = "S"
    /\ a_shape = <<1, 1>>
    /\ a_op.name = "set"
    /\ a_read.status = "ok"
    /\ a_read.vals = <<0>>

(* C32: once close has returned or raised in a write or append session,    *)
(* packaging failures included, the session's working directory no longer  *)
(* exists.                                                                 *)
C32_WorkdirRemoved ==
    (f_req.op = "close" /\ f_state = "closed" /\ f_mode \in {"w", "a"})
    => ~f_wd.exists

\* the same for the closes whose packaging succeeded
C32_RemovedWhenPacked ==
    (f_req.op = "close" /\ f_state = "closed" /\ f_mode \in {"w", "a"}
     /\ f_err = "")
    => ~f_wd.exists

-----------------------------------------------------------------------------
(* Sensor statistics of write_nexus_zip.py: _sensor_stats turns the        *)
(* readings a sensor logged during one point into the statistics stored    *)
(* for that point (Scan.end_count, lines 144-156).  A statistic is an      *)
(* exact fraction [num, den] in lowest terms; the standard deviation is    *)
(* kept as its square.                                                     *)

MaxReadings == 3

SensorVals == 1..3

Readings == [value : SensorVals, status : {0, 1}]

SensorLogs == UNION {[1..n -> Readings] : n \in 0..MaxReadings}

RECURSIVE Gcd(_, _)
Gcd(a, b) == IF b = 0 THEN a ELSE Gcd(b, a % b)

Rat(num, den) ==
    LET g == Gcd(num, den)
    IN  IF g = 0 THEN [num |-> 0, den |-> 1]
        ELSE [num |-> num \div g, den |-> den \div g]

RECURSIVE Sum(_)
Sum(s) == IF s = <<>> THEN 0 ELSE Head(s) + Sum(Tail(s))

Sorted(s) == SortSeq(s, LAMBDA a, b : a < b)

\* numpy.mean, numpy.std (squared), numpy.min, numpy.max, numpy.median
NpMean(s) == Rat(Sum(s), Len(s))

NpVar(s) ==
    Rat(Len(s) * Sum([i \in 1..Len(s) |-> s[i] * s[i]]) - Sum(s) * Sum(s),
        Len(s) * Len(s))

NpMin(s) == Rat(Sorted(s)[1], 1)

NpMax(s) == Rat(Sorted(s)[Len(s)], 1)

NpMedian(s) ==
    LET t == Sorted(s)
        n == Len(s)
    IN  IF n % 2 = 1 THEN Rat(t[(n + 1) \div 2], 1)
        ELSE Rat(t[n \div 2] + t[n \div 2 + 1], 2)

NpApply(fn, s) ==
    CASE fn = "mean" -> NpMean(s)
      [] fn = "std" -> NpVar(s)
      [] fn = "min" -> NpMin(s)
      [] fn = "max" -> NpMax(s)
      [] fn = "median" -> NpMedian(s)

\* the table _SENSOR_STATS (lines 991-997): function, nexus name
SENSOR_STATS ==
    <<(<<"mean", "average_value">>),
      (<<"std", "average_value_error">>),
      (<<"min", "minimum_value">>),
      (<<"median", "maximum_value">>),
      (<<"max", "median_value">>)>>

\* line 983: the values with status 0; lines 985-986: else the prior value
GoodValues(sensor_data, prior) ==
    LET Good(r) == r.status = 0
        good == SelectSeq(sensor_data, Good)
    IN  IF Len(good) = 0 THEN <<prior>>
        ELSE [i \in 1..Len(good) |-> good[i].value]

\* _sensor_stats (lines 980-989): dict((field, fn(values)) for fn, field, _)
sensor_stats(sensor_data, prior) ==
    LET values == GoodValues(sensor_data, prior)
        FnOf(field) ==
            (CHOOSE i \in 1..Len(SENSOR_STATS) : SENSOR_STATS[i][2] = field)
        Stat(field) == NpApply(SENSOR_STATS[FnOf(field)][1], values)
    IN  [average_value |-> Stat("average_value"),
         average_value_error |-> Stat("average_value_error"),
         minimum_value |-> Stat("minimum_value"),
         maximum_value |-> Stat("maximum_value"),
         median_value |-> Stat("median_value"),
         count |-> Len(values)]

\* Scan.end_count computing the statistics of one sensor for one point
EndCountStats ==
    /\ s_out.count = 0
    /\ s_out' = sensor_stats(s_in, s_prior)
    /\ UNCHANGED <<s_in, s_prior>>
    /\ UNCHANGED <<dvars, fvars, avars, zvars, nvars, dsvars, wvars>>

\* a later point: new readings, the prior value carried over
NextPointStats ==
    /\ s_out.count > 0
    /\ \E log \in SensorLogs : s_in' = log
    /\ s_prior' = IF s_in = <<>> THEN s_prior ELSE s_in[Len(s_in)].value
    /\ s_out' = NoStats
    /\ UNCHANGED <<dvars, fvars, avars, zvars, nvars, dsvars, wvars>>

InitStats ==
    /\ s_in \in SensorLogs
    /\ s_prior \in SensorVals
    /\ s_out = NoStats

NextStats == EndCountStats \/ NextPointStats

InitSpecStats ==
    /\ InitStats /\ DatasetIdle /\ WriterIdle
    /\ DictIdle /\ FileIdle /\ FieldIdle /\ ZipIdle /\ NestedIdle

SpecStats == InitSpecStats /\ [][NextStats]_vars

(* C34: the statistic stored under each name is the one the name denotes:  *)
(* average_value the mean, minimum_value the minimum, maximum_value the    *)
(* maximum and median_value the median of the point's values with status   *)
(* 0, or of the single prior value when no value has status 0.             *)
C34_StatsByName ==
    s_out.count > 0
    => LET values == GoodValues(s_in, s_prior)
       IN  /\ s_out.average_value = NpMean(values)
           /\ s_out.minimum_value = NpMin(values)
           /\ s_out.maximum_value = NpMax(values)
           /\ s_out.median_value = NpMedian(values)

\* the names that do hold the statistic they denote
C34_MeanAndMin ==
    s_out.count > 0
    => LET values == GoodValues(s_in, s_prior)
       IN  /\ s_out.average_value = NpMean(values)
           /\ s_out.minimum_value = NpMin(values)
           /\ s_out.count = IF \E i \in 1..Len(s_in) : s_in[i].status = 0
                            THEN Cardinality({i \in 1..Len(s_in) :
                                                 s_in[i].status = 0})
                            ELSE 1

-----------------------------------------------------------------------------
(* C35: a field creation that fails for lack of dtype leaves the container *)
(* unchanged: afterwards there is no attribute record and no data file for *)
(* the path.                                                               *)
C35_FailedCreateLeavesNothing ==
    (a_op.name = "create" /\ a_err = "TypeError")
    => (a_attrf = "absent" /\ ~a_file.exists /\ ~a_exists)

\* what a failed creation does leave alone: the data file, so that the path
\* is still absent and a later creation takes it for new
C35_PathStillAbsent ==
    (a_op.name = "create" /\ a_err = "TypeError")
    => (~a_file.exists /\ ~a_exists /\ ~Preexisting)

\* the number of array elements a data file holds
RECURSIVE NumElems(_)
NumElems(recs) ==
    IF recs = <<>> THEN 0 ELSE Head(recs)[1] + NumElems(Tail(recs))

(* C36: after any sequence of value assignments, appends and extends on a  *)
(* field in a write session, failed calls included, the product of the     *)
(* dimensions of the stored shape is the number of elements in the data.   *)
C36_ShapeMatchesData ==
    (a_exists /\ ~a_readonly) => Prod(a_shape) = NumElems(a_file.recs)

\* the same after the calls that report no error on a binary field
C36_BinaryNoError ==
    (a_exists /\ a_binary /\ a_err = "" /\ a_op.name \in {"create", "set"})
    => Prod(a_shape) = NumElems(a_file.recs)

-----------------------------------------------------------------------------
(* The lookups of a write session, made in the working directory           *)
(* (hzf_readonly.py, the else branches of isdir, listdir and exists).      *)

\* os.path.isdir(os.path.join(self.os_path, path)) (line 179): follows links
WD_isdir(files, p) ==
    \/ p = <<>>
    \/ p \in DOMAIN files /\ IsWalkDir(files, p)

\* os.path.exists(os.path.join(self.os_path, path)) (line 198): False for a
\* link whose target is missing
WD_exists(files, p) ==
    \/ p = <<>>
    \/ /\ p \in DOMAIN files
       /\ files[p].kind = "symlink" => files[p].recs \in DOMAIN files

\* line 188: os.path.listdir(...); os.path has no listdir
WD_listdir(files, p) == [err |-> "AttributeError", names |-> {}]

\* the outcome of listdir in a read-only session, in the same form
RO_listing(arch, p) == [err |-> "", names |-> RO_listdir(arch, p)]

(* C37: the two storage backends agree: for every tree built in a write    *)
(* session and every path, the read-only backend over the packed archive   *)
(* returns the same exists, isdir and listdir results as the write backend *)
(* returns over the working directory just before close.                   *)
C37_BackendsAgree ==
    z_arch = make_zipfile(z_tree) =>
        \A p \in LookupPaths :
            /\ RO_isdir(z_arch, p) = WD_isdir(z_tree, p)
            /\ RO_exists(z_arch, p) = WD_exists(z_tree, p)
            /\ RO_listing(z_arch, p) = WD_listdir(z_tree, p)

\* C37 for isdir and exists alone
C37_LookupsAgree ==
    z_arch = make_zipfile(z_tree) =>
        \A p \in LookupPaths :
            /\ RO_isdir(z_arch, p) = WD_isdir(z_tree, p)
            /\ RO_exists(z_arch, p) = WD_exists(z_tree, p)

\* isdir and exists do agree on the trees that hold no symbolic link
C37_AgreeWithoutLinks ==
    (/\ z_arch = make_zipfile(z_tree)
     /\ \A q \in DOMAIN z_tree : z_tree[q].kind # "symlink")
    => \A p \in LookupPaths :
          /\ RO_isdir(z_arch, p) = WD_isdir(z_tree, p)
          /\ RO_exists(z_arch, p) = WD_exists(z_tree, p)

-----------------------------------------------------------------------------
(* One Dataset of write_nexus_zip.py storing a scalar once per point into  *)
(* the field of the FieldFile model above.  ds_engine is the module bound  *)
(* to the name h5nexus: hzf, which write_nexus_zip.py imports and which    *)
(* defines neither field nor extend, or hzf_readonly, which defines them.  *)

MaxPoints == 4

DatasetEngines == {"hzf", "hzf_readonly"}

DatasetFills(dtype) == IF dtype = "int32" THEN {2, 4} ELSE {3, 5}

\* numpy.asarray([original], dtype=self.dtype) (line 853)
PointArray(dtype, v) == [shape |-> <<1>>, dtype |-> dtype, fill |-> v]

\* the store raised: the field and the Dataset are left as they were
StoreRaises(err) ==
    /\ ds_err' = err
    /\ UNCHANGED <<ds_first, avars>>

\* del self.root[self.path] (lines 927-931) in a write session of
\* hzf_readonly: Node.__delitem__ starts with root.listdir(parent_path)
DeleteError == WD_listdir(<<>>, <<>>).err

\* Dataset.store (lines 833-947) for the point ds_point
Store(v) ==
    LET value == PointArray(ds_dtype, v)
    IN  /\ ds_point < MaxPoints
        /\ ds_hist' = Append(ds_hist, v)
        /\ ds_point' = ds_point + 1
        /\ UNCHANGED <<ds_engine, ds_dtype>>
        /\ IF ds_engine = "hzf"
           THEN \* line 884: h5nexus.field; line 892: self._first, which
                \* only line 890 or _load assigns
                StoreRaises("AttributeError")
           ELSE IF ds_point = 0
           THEN \* lines 884-890
                /\ CreateBody(FALSE, ds_dtype, TRUE, value)
                /\ ds_first' = [kind |-> "value", fill |-> v]
                /\ ds_err' = ""
           ELSE IF ds_first.kind = "none"
           THEN \* lines 896-900: extend, and on an error extend by the
                \* default, which has the shape of value
                /\ Remember("extend", value, TRUE)
                /\ IF Rest(value.shape) # Rest(a_shape)
                   THEN /\ ds_err' = "invalid shape to append"
                        /\ a_err' = "invalid shape to append"
                        /\ UNCHANGED <<a_shape, a_file>>
                   ELSE /\ a_shape' = ExtendShape(a_shape, value.shape)
                        /\ WriteData(value, "a")
                        /\ ds_err' = ""
                /\ UNCHANGED <<a_exists, a_binary, a_dtype, a_format, a_attrf,
                               a_byteorder, a_readonly, ds_first>>
           ELSE IF ds_first.fill = v
           THEN \* lines 945-946: pass
                /\ ds_err' = ""
                /\ UNCHANGED <<ds_first, avars>>
           ELSE IF DeleteError # ""
           THEN \* lines 927-931: annotate_exception, raise
                StoreRaises(DeleteError)
           ELSE \* lines 933-944: the new field, self._first = None
                LET data == [shape |-> <<ds_point + 1>>, dtype |-> ds_dtype,
                             fill |-> v]
                IN  /\ a_prev' = [shape |-> a_shape, file |-> a_file,
                                  dtype |-> a_dtype, format |-> a_format,
                                  binary |-> a_binary]
                    /\ a_read' = NoRead
                    /\ a_op' = [name |-> "create", shape |-> data.shape,
                                dtype |-> ds_dtype, fill |-> v,
                                coerce |-> TRUE]
                    /\ a_shape' = data.shape
                    /\ a_file' = [exists |-> TRUE,
                                  recs |-> Repeat(<<1, ds_first.fill, "t">>,
                                                  ds_point)
                                           \o <<(<<1, v, "t">>)>>]
                    /\ a_err' = ""
                    /\ ds_first' = [kind |-> "none", fill |-> 0]
                    /\ ds_err' = ""
                    /\ UNCHANGED <<a_exists, a_binary, a_dtype, a_format,
                                   a_attrf, a_byteorder, a_readonly>>
        /\ UNCHANGED <<dvars, fvars, zvars, nvars, svars, wvars>>

InitDataset ==
    /\ ds_engine \in DatasetEngines
    /\ ds_dtype \in Dtypes
    /\ ds_first = NoFirst
    /\ ds_point = 0
    /\ ds_hist = <<>>
    /\ ds_err = ""

NextDataset == \E v \in DatasetFills(ds_dtype) : Store(v)

InitSpecDataset ==
    /\ InitDataset /\ StatsIdle /\ WriterIdle
    /\ DictIdle /\ FileIdle /\ FieldIdle /\ ZipIdle /\ NestedIdle

SpecDataset == InitSpecDataset /\ [][NextDataset]_vars

\* the values the field should hold after the stores of hist: one row while
\* every value equals the first, then one row per point
RECURSIVE AllEqual(_)
AllEqual(hist) ==
    Len(hist) < 2 \/ (hist[1] = hist[2] /\ AllEqual(Tail(hist)))

Promoted(hist) ==
    LET p == CHOOSE i \in 1..Len(hist) :
                 /\ hist[i] # hist[1]
                 /\ \A j \in 1..(i - 1) : hist[j] = hist[1]
    IN  [i \in 1..Len(hist) |-> IF i < p THEN hist[1] ELSE hist[i]]

FieldRows(hist) == IF AllEqual(hist) THEN <<hist[1]>> ELSE Promoted(hist)

(* C33: with store called once per point, the field stays a one-row field  *)
(* while every stored value equals the first; at the first differing value *)
(* it is replaced by the first value repeated once per earlier point       *)
(* followed by the new value; thereafter every store adds one row, so the  *)
(* promoted field's leading dimension is the number of points stored.      *)
C33_ScalarThenVector ==
    ds_hist # <<>>
    => /\ a_exists
       /\ a_shape = <<Len(FieldRows(ds_hist))>>
       /\ Flatten(a_file.recs, a_format.code) = FieldRows(ds_hist)

\* the first half of C33 under hzf_readonly: a one-row field while every
\* stored value equals the first
C33_OneRowWhileEqual ==
    (ds_engine = "hzf_readonly" /\ ds_hist # <<>> /\ AllEqual(ds_hist))
    => /\ a_exists
       /\ a_shape = <<1>>
       /\ Flatten(a_file.recs, a_format.code) = <<ds_hist[1]>>

-----------------------------------------------------------------------------
(* The Writer of write_nexus_zip.py with scans of one file path.  The data *)
(* a scan stores for its point i is the token <<e, i>>, written into the   *)
(* working directory of the scan's file and packed into the archive when   *)
(* the file is closed.  w_engine is the module bound to the name h5nexus:  *)
(* hzf (the one imported), hzf_readonly or hzf_inline.                     *)

MaxScanPoints == 2

Entries == {1, 2}

WriterEngines == {"hzf", "hzf_readonly", "hzf_inline"}

NoScan == [state |-> "none", dir |-> 0, stored |-> 0]

\* Writer.__init__ (lines 41-48)
InitWriter ==
    /\ w_engine \in WriterEngines
    /\ w_arch = NoStore
    /\ w_scans = [e \in Entries |-> NoScan]
    /\ w_dirs = <<>>
    /\ w_active = 0
    /\ w_err = ""
    /\ w_ended = FALSE

\* Writer.open_scan (lines 58-99); Scan.__init__ (lines 249-269) calls
\* h5nexus.open(path, mode='a', ..., os_path=self.tmp_paths.get(path))
OpenScan(e) ==
    /\ ~w_ended
    /\ w_active' = e                                         \* line 84
    /\ IF w_scans[e].state # "none"
       THEN \* line 85: the scan is in self.scans, open or closed
            /\ w_err' = ""
            /\ UNCHANGED <<w_scans, w_dirs>>
       ELSE IF w_engine = "hzf"
       THEN \* hzf defines no open
            /\ w_err' = "AttributeError"
            /\ UNCHANGED <<w_scans, w_dirs>>
       ELSE IF w_engine = "hzf_readonly"
       THEN \* ReadWriteFile.__init__ line 129: makeAttrs before os_path
            /\ w_err' = "AttributeError"
            /\ UNCHANGED <<w_scans, w_dirs>>
       ELSE \* hzf_inline.File.__init__ (lines 122-152): os_path lands in
            \* **kw; always tempfile.mkdtemp(), then extractall
            /\ w_dirs' = Append(w_dirs,
                                [exists |-> TRUE,
                                 data |-> IF w_arch.exists THEN w_arch.data
                                          ELSE {}])
            /\ w_scans' = [w_scans EXCEPT
                              ![e] = [state |-> "open",
                                      dir |-> Len(w_dirs) + 1,
                                      stored |-> 0]]
            /\ w_err' = ""
    /\ UNCHANGED <<w_engine, w_arch, w_ended>>
    /\ UNCHANGED <<dvars, fvars, avars, zvars, nvars, svars, dsvars>>

\* Writer.end_count (lines 107-114) and Scan.end_count (lines 144-193) for
\* a scan open_scan has returned
EndCount(e) ==
    /\ ~w_ended
    /\ w_scans[e].state # "none"
    /\ w_scans[e].stored < MaxScanPoints
    /\ w_active' = e                                         \* reload_scan
    /\ IF w_scans[e].state = "closed"
       THEN \* line 161: self.fields was deleted by Scan.close
            /\ w_err' = "AttributeError"
            /\ UNCHANGED <<w_scans, w_dirs>>
       ELSE IF ~w_dirs[w_scans[e].dir].exists
       THEN /\ w_err' = "IOError"
            /\ UNCHANGED <<w_scans, w_dirs>>
       ELSE /\ w_dirs' = [w_dirs EXCEPT
                             ![w_scans[e].dir].data =
                                 @ \cup {<<e, w_scans[e].stored + 1>>}]
            /\ w_scans' = [w_scans EXCEPT ![e].stored = @ + 1]
            /\ w_err' = ""
    /\ UNCHANGED <<w_engine, w_arch, w_ended>>
    /\ UNCHANGED <<dvars, fvars, avars, zvars, nvars, svars, dsvars>>

\* what Scan.close (lines 220-241) makes of the archive, the directories
\* and the scans: hzf_inline.File.close writes the archive from the scan's
\* directory, then removes the directory
ScanClose(st, e) ==
    IF st.scans[e].state # "open" THEN st
    ELSE [arch |-> [exists |-> TRUE, data |-> st.dirs[st.scans[e].dir].data],
          dirs |-> [st.dirs EXCEPT ![st.scans[e].dir] = NoStore],
          scans |-> [st.scans EXCEPT ![e].state = "closed"]]

WriterStore == [arch |-> w_arch, dirs |-> w_dirs, scans |-> w_scans]

\* Writer.close_scan (lines 101-105)
CloseScan(e) ==
    /\ ~w_ended
    /\ w_scans[e].state # "none"
    /\ LET st == IF w_active = e THEN ScanClose(WriterStore, e)
                 ELSE WriterStore
       IN  /\ w_arch' = st.arch
           /\ w_dirs' = st.dirs
           /\ w_scans' = st.scans
    /\ w_active' = 0
    /\ w_err' = ""
    /\ UNCHANGED <<w_engine, w_ended>>
    /\ UNCHANGED <<dvars, fvars, avars, zvars, nvars, svars, dsvars>>

\* Writer.end (lines 130-137): every scan of self.scans is closed, in the
\* order the dict yields them
End ==
    /\ ~w_ended
    /\ \E first \in Entries :
          LET second == CHOOSE e \in Entries : e # first
              st == ScanClose(ScanClose(WriterStore, first), second)
          IN  /\ w_arch' = st.arch
              /\ w_dirs' = st.dirs
              /\ w_scans' = st.scans
    /\ w_ended' = TRUE
    /\ w_err' = ""
    /\ UNCHANGED <<w_engine, w_active>>
    /\ UNCHANGED <<dvars, fvars, avars, zvars, nvars, svars, dsvars>>

NextWriter ==
    \/ \E e \in Entries : OpenScan(e)
    \/ \E e \in Entries : EndCount(e)
    \/ \E e \in Entries : CloseScan(e)
    \/ End

InitSpecWriter ==
    /\ InitWriter /\ StatsIdle /\ DatasetIdle
    /\ DictIdle /\ FileIdle /\ FieldIdle /\ ZipIdle /\ NestedIdle

SpecWriter == InitSpecWriter /\ [][NextWriter]_vars

(* C38: when a Writer has had two scans open on the same file path,        *)
(* closing one of them with close_scan does not discard what the other     *)
(* needs: after Writer.end the file's archive holds the data of every      *)
(* point either scan stored.                                               *)
C38_BothScansPacked ==
    [][(/\ End
        /\ \E e \in Entries : w_scans[e].state = "closed"
        /\ \E e \in Entries : w_scans[e].state = "open")
       => \A e \in Entries :
             \A i \in 1..w_scans'[e].stored : <<e, i>> \in w_arch'.data]_vars

\* the same of every run with two scans, closed by close_scan or by end
C38_TwoScansPacked ==
    (w_ended /\ \A e \in Entries : w_scans[e].state # "none")
    => \A e \in Entries :
          \A i \in 1..w_scans[e].stored : <<e, i>> \in w_arch.data

\* with one scan only, the archive does hold every point the scan stored
C38_OneScanPacked ==
    (w_ended /\ \E e \in Entries : w_scans[e].state = "none")
    => \A e \in Entries :
          \A i \in 1..w_scans[e].stored : <<e, i>> \in w_arch.data

\* the scans of the imported module never open
C38_HzfNeverOpens ==
    w_engine \in {"hzf", "hzf_readonly"}
    => \A e \in Entries : w_scans[e].state = "none"

====
